---------------------------- MODULE Spec2Model ----------------------------
(***************************************************************************)
(* Beat & Stems Lab analysis core (src/src/chords.py, timing.py,           *)
(* melody.py).  The analysis functions are pure: a behaviour is one call.  *)
(* `fn' names the function called, `args' holds its arguments under the    *)
(* source's parameter names, `ret' its return value, and `pc' says whether *)
(* the call is pending ("call") or has returned.                           *)
(*                                                                         *)
(* Arithmetic is exact.  A real number is a fraction [n, d] in lowest      *)
(* terms; a cosine similarity or a Pearson correlation, which is the       *)
(* square root of a fraction, is carried as its square (with its sign      *)
(* where it can be negative), comparisons being made on the squares.       *)
(***************************************************************************)
EXTENDS Integers, Sequences, FiniteSets, TLC

VARIABLES fn, pc, args, ret

vars == <<fn, pc, args, ret>>

NoResult == [none |-> TRUE]

(***************************************************************************)
(* Exact fractions.                                                        *)
(***************************************************************************)
RECURSIVE GCD(_, _)
GCD(a, b) == IF b = 0 THEN a ELSE GCD(b, a % b)

Abs(x) == IF x < 0 THEN -x ELSE x

Frac(n, d) ==
    LET g == GCD(Abs(n), Abs(d))
        s == IF d < 0 THEN -1 ELSE 1
    IN  [n |-> s * (n \div g), d |-> s * (d \div g)]

FracAdd(a, b) == Frac(a.n * b.d + b.n * a.d, a.d * b.d)
FracSub(a, b) == Frac(a.n * b.d - b.n * a.d, a.d * b.d)
FracMul(a, b) ==
    LET x == Frac(a.n, b.d)
        y == Frac(b.n, a.d)
    IN  [n |-> x.n * y.n, d |-> x.d * y.d]
FracDiv(a, b) == FracMul(a, [n |-> b.d, d |-> b.n])
FracLT(a, b) == a.n * b.d < b.n * a.d
FracLE(a, b) == a.n * b.d <= b.n * a.d
FracMax(a, b) == IF FracLT(a, b) THEN b ELSE a
FracFloor(x) == x.n \div x.d
Zero == Frac(0, 1)
One == Frac(1, 1)

(***************************************************************************)
(* config.py                                                               *)
(***************************************************************************)
SAMPLE_RATE == 44100
HOP_LENGTH == 512

(***************************************************************************)
(* chords.py: the chord templates, in the enumeration order of the dict.   *)
(***************************************************************************)
NOTE_NAMES == <<"C", "C#", "D", "D#", "E", "F", "F#", "G", "G#", "A", "A#", "B">>

Qualities == <<"major", "minor">>

CHORD_TEMPLATES ==
    [C |-> [major |-> <<1, 0, 0, 0, 1, 0, 0, 1, 0, 0, 0, 0>>,
            minor |-> <<1, 0, 0, 1, 0, 0, 0, 1, 0, 0, 0, 0>>],
     Cs |-> [major |-> <<0, 1, 0, 0, 0, 1, 0, 0, 1, 0, 0, 0>>,
             minor |-> <<0, 1, 0, 0, 1, 0, 0, 0, 1, 0, 0, 0>>],
     D |-> [major |-> <<0, 0, 1, 0, 0, 0, 1, 0, 0, 1, 0, 0>>,
            minor |-> <<0, 0, 1, 0, 0, 1, 0, 0, 0, 1, 0, 0>>],
     Ds |-> [major |-> <<0, 0, 0, 1, 0, 0, 0, 1, 0, 0, 1, 0>>,
             minor |-> <<0, 0, 0, 1, 0, 0, 1, 0, 0, 0, 1, 0>>],
     E |-> [major |-> <<1, 0, 0, 0, 1, 0, 0, 0, 1, 0, 0, 1>>,
            minor |-> <<1, 0, 0, 0, 0, 1, 0, 0, 1, 0, 0, 1>>],
     F |-> [major |-> <<1, 1, 0, 0, 0, 1, 0, 0, 0, 1, 0, 0>>,
            minor |-> <<1, 1, 0, 0, 0, 0, 1, 0, 0, 1, 0, 0>>],
     Fs |-> [major |-> <<0, 1, 1, 0, 0, 0, 1, 0, 0, 0, 1, 0>>,
             minor |-> <<0, 1, 1, 0, 0, 0, 0, 1, 0, 0, 1, 0>>],
     G |-> [major |-> <<0, 0, 1, 1, 0, 0, 0, 1, 0, 0, 0, 1>>,
            minor |-> <<0, 0, 1, 1, 0, 0, 0, 0, 1, 0, 0, 1>>],
     Gs |-> [major |-> <<1, 0, 0, 1, 1, 0, 0, 0, 1, 0, 0, 0>>,
             minor |-> <<1, 0, 0, 1, 0, 1, 0, 0, 1, 0, 0, 0>>],
     A |-> [major |-> <<1, 1, 0, 0, 1, 1, 0, 0, 0, 1, 0, 0>>,
            minor |-> <<1, 1, 0, 0, 0, 1, 1, 0, 0, 1, 0, 0>>],
     As |-> [major |-> <<0, 1, 1, 0, 0, 1, 1, 0, 0, 0, 1, 0>>,
             minor |-> <<0, 1, 1, 0, 0, 0, 1, 1, 0, 0, 1, 0>>],
     B |-> [major |-> <<0, 0, 1, 1, 0, 0, 1, 1, 0, 0, 0, 1>>,
            minor |-> <<0, 0, 1, 1, 0, 0, 0, 1, 1, 0, 0, 1>>]]

\* The dict's keys in insertion order; RootName gives the key's text.
TemplateKeys == <<"C", "Cs", "D", "Ds", "E", "F", "Fs", "G", "Gs", "A", "As", "B">>
RootName(i) == NOTE_NAMES[i]

\* Template number t in 1..24 of the double loop of lines 74-75:
\* roots in dict order, major before minor within a root.
TemplateRoot(t) == ((t - 1) \div 2) + 1
TemplateQuality(t) == Qualities[((t - 1) % 2) + 1]
Template(t) == CHORD_TEMPLATES[TemplateKeys[TemplateRoot(t)]][TemplateQuality(t)]
NumTemplates == Len(TemplateKeys) * Len(Qualities)

(***************************************************************************)
(* 12-bin vectors.  A rational vector is [num, den]: bin j is num[j]/den.  *)
(***************************************************************************)
Bins == 1..12

Sum12(v) == v[1] + v[2] + v[3] + v[4] + v[5] + v[6]
            + v[7] + v[8] + v[9] + v[10] + v[11] + v[12]

Dot12(a, b) == a[1] * b[1] + a[2] * b[2] + a[3] * b[3] + a[4] * b[4]
               + a[5] * b[5] + a[6] * b[6] + a[7] * b[7] + a[8] * b[8]
               + a[9] * b[9] + a[10] * b[10] + a[11] * b[11] + a[12] * b[12]

ZeroVector == [j \in Bins |-> 0]


(***************************************************************************)
(* chords.py, detect_chord_from_chroma (lines 57-86).                      *)
(* Chroma energies are whole multiples of 1e-8, the epsilon of line 68, so *)
(* that the epsilon is one unit and weighs as much as it ever can.         *)
(***************************************************************************)
Eps == 1

\* Line 68: chroma_vector / (np.sum(chroma_vector) + 1e-8).  With bin j equal
\* to num[j]/den the sum is S/den, the divisor (S + Eps*den)/den, and the
\* quotient num[j]/(S + Eps*den).
NormalizeChroma(chroma_vector) ==
    [num |-> chroma_vector.num,
     den |-> Sum12(chroma_vector.num) + Eps * chroma_vector.den]

\* Line 77: np.array(template) / np.sum(template).
NormalizeTemplate(template) == [num |-> template, den |-> Sum12(template)]

\* Line 80: 1 - cosine(u, w), where scipy's cosine(u, w) is
\* 1 - u.w / (||u|| ||w||).  The result is the square of the similarity
\* (every bin is non-negative, so the similarity is); 0/0 is NaN.
NaN == [nan |-> TRUE]
IsNaN(x) == "nan" \in DOMAIN x

\* The similarity as a bare dot product, the two norms forgotten.
SimilarityUnnormalized(u, w) ==
    LET uw == Frac(Dot12(u.num, w.num), u.den * w.den)
    IN  IF Dot12(u.num, u.num) = 0 \/ Dot12(w.num, w.num) = 0
        THEN NaN
        ELSE FracMul(uw, uw)

Similarity(u, w) ==
    LET uw == Frac(Dot12(u.num, w.num), u.den * w.den)
        uu == Frac(Dot12(u.num, u.num), u.den * u.den)
        ww == Frac(Dot12(w.num, w.num), w.den * w.den)
    IN  IF uu.n = 0 \/ ww.n = 0
        THEN NaN
        ELSE FracDiv(FracMul(uw, uw), FracMul(uu, ww))

\* The comparison of line 82 with `>=' for `>'.
GreaterOrEqual(similarity, best_confidence) ==
    IF IsNaN(similarity) THEN FALSE ELSE FracLE(best_confidence, similarity)

\* Line 82: similarity > best_confidence; a comparison with NaN is false.
Greater(similarity, best_confidence) ==
    IF IsNaN(similarity) THEN FALSE ELSE FracLT(best_confidence, similarity)

\* Line 84: f"{root}{quality[0].upper()}".
Upper(c) == IF c = "m" THEN "M" ELSE c
FirstChar(quality) == IF quality \in {"major", "minor"} THEN "m" ELSE quality
ChordLabel(root, quality) == RootName(root) \o Upper(FirstChar(quality))

\* Lines 70-86: the loop over the 24 templates.  `best' is the template that
\* set best_chord last (0: none), kept beside the two values the code returns.
RECURSIVE DetectLoop(_, _, _)
DetectLoop(chroma_norm, t, acc) ==
    IF t > NumTemplates
    THEN acc
    ELSE LET similarity == Similarity(chroma_norm, NormalizeTemplate(Template(t)))
         IN  IF Greater(similarity, acc.confidence)
             THEN DetectLoop(chroma_norm, t + 1,
                             [label |-> ChordLabel(TemplateRoot(t), TemplateQuality(t)),
                              confidence |-> similarity,
                              best |-> t])
             ELSE DetectLoop(chroma_norm, t + 1, acc)

DetectChordFromChroma(chroma_vector) ==
    DetectLoop(NormalizeChroma(chroma_vector), 1,
               [label |-> "N", confidence |-> Zero, best |-> 0])

(***************************************************************************)
(* chords.py, merge_consecutive_chords (lines 143-185).  An event is       *)
(* [time, label, confidence].                                              *)
(***************************************************************************)
\* Variants of the merge loop, each with one slip: the label compared with
\* the first chord's instead of the current one's; the last chord not added;
\* the run's last confidence kept instead of its largest.
RECURSIVE MergeLoopStaleLabel(_, _, _, _, _, _)
MergeLoopStaleLabel(times, labels, confidences, i, merged, current_chord) ==
    IF i > Len(times)
    THEN Append(merged, current_chord)
    ELSE IF labels[i] = labels[1]
         THEN MergeLoopStaleLabel(times, labels, confidences, i + 1, merged,
                                  [current_chord EXCEPT
                                       !.confidence = FracMax(@, confidences[i])])
         ELSE MergeLoopStaleLabel(times, labels, confidences, i + 1,
                                  Append(merged, current_chord),
                                  [time |-> times[i], label |-> labels[i],
                                   confidence |-> confidences[i]])

RECURSIVE MergeLoopDropLast(_, _, _, _, _, _)
MergeLoopDropLast(times, labels, confidences, i, merged, current_chord) ==
    IF i > Len(times)
    THEN merged
    ELSE IF labels[i] = current_chord.label
         THEN MergeLoopDropLast(times, labels, confidences, i + 1, merged,
                                [current_chord EXCEPT
                                     !.confidence = FracMax(@, confidences[i])])
         ELSE MergeLoopDropLast(times, labels, confidences, i + 1,
                                Append(merged, current_chord),
                                [time |-> times[i], label |-> labels[i],
                                 confidence |-> confidences[i]])

RECURSIVE MergeLoopLastConfidence(_, _, _, _, _, _)
MergeLoopLastConfidence(times, labels, confidences, i, merged, current_chord) ==
    IF i > Len(times)
    THEN Append(merged, current_chord)
    ELSE IF labels[i] = current_chord.label
         THEN MergeLoopLastConfidence(times, labels, confidences, i + 1, merged,
                                      [current_chord EXCEPT
                                           !.confidence = confidences[i]])
         ELSE MergeLoopLastConfidence(times, labels, confidences, i + 1,
                                      Append(merged, current_chord),
                                      [time |-> times[i], label |-> labels[i],
                                       confidence |-> confidences[i]])

RECURSIVE MergeLoop(_, _, _, _, _, _)
MergeLoop(times, labels, confidences, i, merged, current_chord) ==
    IF i > Len(times)
    THEN Append(merged, current_chord)
    ELSE IF labels[i] = current_chord.label
         THEN MergeLoop(times, labels, confidences, i + 1, merged,
                        [current_chord EXCEPT
                             !.confidence = FracMax(@, confidences[i])])
         ELSE MergeLoop(times, labels, confidences, i + 1,
                        Append(merged, current_chord),
                        [time |-> times[i], label |-> labels[i],
                         confidence |-> confidences[i]])

MergeConsecutiveChords(times, labels, confidences) ==
    IF times = <<>>
    THEN <<>>
    ELSE MergeLoop(times, labels, confidences, 2, <<>>,
                   [time |-> times[1], label |-> labels[1],
                    confidence |-> confidences[1]])

(***************************************************************************)
(* chords.py, analyze_chord_progression (lines 89-140).  `chroma' is the   *)
(* sequence of the matrix's frames (columns), frame f at index f + 1.      *)
(***************************************************************************)
\* Line 52: librosa.times_like: frame f is at f * hop_length / sr seconds.
TimesLike(f) == Frac(f * HOP_LENGTH, SAMPLE_RATE)

\* Line 111: int(window_size * sr / HOP_LENGTH).
WindowSamples(window_size) ==
    (window_size.n * SAMPLE_RATE) \div (window_size.d * HOP_LENGTH)

Min(a, b) == IF a < b THEN a ELSE b

\* Line 119: np.mean(chroma[:, i:end_idx], axis=1), frames i .. end_idx - 1.
RECURSIVE SumFrames(_, _, _)
SumFrames(chroma, i, end_idx) ==
    IF i >= end_idx
    THEN ZeroVector
    ELSE LET rest == SumFrames(chroma, i + 1, end_idx)
         IN  [j \in Bins |-> chroma[i + 1][j] + rest[j]]

WindowChroma(chroma, i, end_idx) ==
    [num |-> SumFrames(chroma, i, end_idx), den |-> end_idx - i]

\* The window loop without the test of line 125.
RECURSIVE WindowLoopNoThreshold(_, _, _, _, _)
WindowLoopNoThreshold(chroma, window_samples, confidence_threshold, i, acc) ==
    IF i >= Len(chroma)
    THEN acc
    ELSE LET end_idx == Min(i + window_samples, Len(chroma))
             det == DetectChordFromChroma(WindowChroma(chroma, i, end_idx))
         IN  WindowLoopNoThreshold(chroma, window_samples, confidence_threshold,
                        i + window_samples,
                        [chord_times |-> Append(acc.chord_times, TimesLike(i)),
                         chord_labels |-> Append(acc.chord_labels, det.label),
                         chord_confidences |->
                             Append(acc.chord_confidences, det.confidence)])

\* Lines 116-128: the loop over the windows; acc holds the three lists.
RECURSIVE WindowLoop(_, _, _, _, _)
WindowLoop(chroma, window_samples, confidence_threshold, i, acc) ==
    IF i >= Len(chroma)
    THEN acc
    ELSE LET end_idx == Min(i + window_samples, Len(chroma))
             det == DetectChordFromChroma(WindowChroma(chroma, i, end_idx))
         IN  WindowLoop(chroma, window_samples, confidence_threshold,
                        i + window_samples,
                        IF FracLE(confidence_threshold, det.confidence)
                        THEN [chord_times |-> Append(acc.chord_times, TimesLike(i)),
                              chord_labels |-> Append(acc.chord_labels, det.label),
                              chord_confidences |->
                                  Append(acc.chord_confidences, det.confidence)]
                        ELSE acc)

AnalyzeChordProgression(chroma, window_size, confidence_threshold) ==
    LET kept == WindowLoop(chroma, WindowSamples(window_size), confidence_threshold, 0,
                           [chord_times |-> <<>>, chord_labels |-> <<>>,
                            chord_confidences |-> <<>>])
        merged_chords == MergeConsecutiveChords(kept.chord_times, kept.chord_labels,
                                                kept.chord_confidences)
    IN  [chord_times |-> [c \in DOMAIN merged_chords |-> merged_chords[c].time],
         chord_labels |-> [c \in DOMAIN merged_chords |-> merged_chords[c].label],
         chord_confidences |->
             [c \in DOMAIN merged_chords |-> merged_chords[c].confidence],
         total_chords |-> Len(merged_chords)]

(***************************************************************************)
(* Calls of the chord recogniser: merge_consecutive_chords on three lists  *)
(* of equal length, and analyze_chord_progression on a chroma matrix.      *)
(***************************************************************************)
MaxChords == 3
MaxFrames == 3
MaxWindow == 2

SeqsOf(S, n) == [1..n -> S]

MergeLabels == {"CM", "GM"}
MergeTimes == {Frac(t, 1) : t \in 0..1}
MergeConfidences == {Frac(c, 10) : c \in {3, 5, 10}}

MergeInputs(maxChords) ==
    UNION {[times : SeqsOf(MergeTimes, n), labels : SeqsOf(MergeLabels, n),
            confidences : SeqsOf(MergeConfidences, n)] : n \in 0..maxChords}

\* Frames of a chroma matrix: silence, the triads C-E-G, C-Eb-G and G-B-D,
\* and one loud C.
ChromaFrames ==
    {ZeroVector,
     <<1, 0, 0, 0, 1, 0, 0, 1, 0, 0, 0, 0>>,
     <<1, 0, 0, 1, 0, 0, 0, 1, 0, 0, 0, 0>>,
     <<0, 0, 1, 0, 0, 0, 0, 1, 0, 0, 0, 1>>,
     <<2, 0, 0, 0, 0, 0, 0, 0, 0, 0, 0, 0>>}

\* Window sizes of 1 .. MaxWindow hops, and of one hop and a half.
WindowSizes(maxWindow) ==
    {Frac(w * HOP_LENGTH, SAMPLE_RATE) : w \in 1..maxWindow}
        \cup {Frac(3 * HOP_LENGTH, 2 * SAMPLE_RATE)}

\* Thresholds, as the squares of 0, 0.3 (the default), 0.6 and 1.
Thresholds == {Frac(0, 1), Frac(9, 100), Frac(36, 100), Frac(1, 1)}

AnalyzeInputs(maxFrames, maxWindow) ==
    UNION {[chroma : SeqsOf(ChromaFrames, n), window_size : WindowSizes(maxWindow),
            confidence_threshold : Thresholds] : n \in 0..maxFrames}

InitChords ==
    /\ pc = "call"
    /\ ret = NoResult
    /\ \/ fn = "merge_consecutive_chords" /\ args \in MergeInputs(MaxChords)
       \/ fn = "analyze_chord_progression" /\ args \in AnalyzeInputs(MaxFrames, MaxWindow)

CallMergeConsecutiveChords ==
    /\ fn = "merge_consecutive_chords" /\ pc = "call"
    /\ ret' = MergeConsecutiveChords(args.times, args.labels, args.confidences)
    /\ pc' = "return"
    /\ UNCHANGED <<fn, args>>

\* The caller feeds the returned events back into merge_consecutive_chords.
RemergeConsecutiveChords ==
    /\ fn = "merge_consecutive_chords" /\ pc = "return"
    /\ args' = [times |-> [c \in DOMAIN ret |-> ret[c].time],
                labels |-> [c \in DOMAIN ret |-> ret[c].label],
                confidences |-> [c \in DOMAIN ret |-> ret[c].confidence]]
    /\ ret' = MergeConsecutiveChords(args'.times, args'.labels, args'.confidences)
    /\ pc' = "remerged"
    /\ UNCHANGED fn

CallAnalyzeChordProgression ==
    /\ fn = "analyze_chord_progression" /\ pc = "call"
    /\ ret' = AnalyzeChordProgression(args.chroma, args.window_size,
                                      args.confidence_threshold)
    /\ pc' = "return"
    /\ UNCHANGED <<fn, args>>

NextChords ==
    \/ CallMergeConsecutiveChords
    \/ RemergeConsecutiveChords
    \/ CallAnalyzeChordProgression

SpecChords == InitChords /\ [][NextChords]_vars

(***************************************************************************)
(* Properties of the chord recogniser.                                     *)
(***************************************************************************)
MergeReturned == fn = "merge_consecutive_chords" /\ pc \in {"return", "remerged"}
AnalyzeReturned == fn = "analyze_chord_progression" /\ pc = "return"

NoEqualNeighbours(seq) == \A c \in 1..(Len(seq) - 1) : seq[c] # seq[c + 1]

\* C1: the events merge_consecutive_chords returns never have two adjacent
\* events with the same label, and so neither has the chord_labels list of
\* analyze_chord_progression.
C1_NoAdjacentEqualLabels ==
    /\ MergeReturned => NoEqualNeighbours([c \in DOMAIN ret |-> ret[c].label])
    /\ AnalyzeReturned => NoEqualNeighbours(ret.chord_labels)

\* A call whose input had a run of two equal labels and a change of label.
C1_Witness ==
    /\ fn = "merge_consecutive_chords" /\ pc = "return"
    /\ Len(args.labels) = 3 /\ Len(ret) = 2
    /\ args.labels[1] = args.labels[2]

\* C2: merge_consecutive_chords is idempotent: fed the times, labels and
\* confidences of its own output, it returns the same events.
C2_MergeIdempotent ==
    (fn = "merge_consecutive_chords" /\ pc = "remerged") =>
        /\ Len(ret) = Len(args.times)
        /\ \A c \in DOMAIN ret :
               /\ ret[c].time = args.times[c]
               /\ ret[c].label = args.labels[c]
               /\ ret[c].confidence = args.confidences[c]

C2_Witness ==
    /\ fn = "merge_consecutive_chords" /\ pc = "remerged"
    /\ Len(args.times) = 2 /\ Len(ret) = 2

\* The runs of a label list: a run starts at 1 and wherever the label differs
\* from the one before; it ends before the next start.
RunStarts(labels) ==
    {i \in DOMAIN labels : i = 1 \/ labels[i] # labels[i - 1]}
RunStart(labels, k) ==
    CHOOSE i \in RunStarts(labels) :
        Cardinality({j \in RunStarts(labels) : j <= i}) = k
RunEnd(labels, k) ==
    IF k = Cardinality(RunStarts(labels))
    THEN Len(labels)
    ELSE RunStart(labels, k + 1) - 1
IsMaxOver(x, confidences, lo, hi) ==
    /\ \E j \in lo..hi : confidences[j] = x
    /\ \A j \in lo..hi : FracLE(confidences[j], x)

\* C3: one event per maximal run of equal labels, in the order of the runs:
\* its time is the time of the run's first window, its confidence the largest
\* of the run.
C3_OneEventPerRun ==
    (fn = "merge_consecutive_chords" /\ pc = "return") =>
        /\ Len(ret) = Cardinality(RunStarts(args.labels))
        /\ \A k \in DOMAIN ret :
               /\ ret[k].time = args.times[RunStart(args.labels, k)]
               /\ ret[k].label = args.labels[RunStart(args.labels, k)]
               /\ IsMaxOver(ret[k].confidence, args.confidences,
                            RunStart(args.labels, k), RunEnd(args.labels, k))

\* A run of two whose larger confidence is the first one's, then another run.
C3_Witness ==
    /\ fn = "merge_consecutive_chords" /\ pc = "return"
    /\ Len(args.labels) = 3 /\ Len(ret) = 2
    /\ args.labels[1] = args.labels[2]
    /\ FracLT(args.confidences[2], args.confidences[1])
    /\ ret[1].confidence = args.confidences[1]

\* The windows of a call of analyze_chord_progression, by their first frame.
WindowStarts ==
    {i \in 0..(Len(args.chroma) - 1) : i % WindowSamples(args.window_size) = 0}
WindowDetect(i) ==
    DetectChordFromChroma(
        WindowChroma(args.chroma, i,
                     Min(i + WindowSamples(args.window_size), Len(args.chroma))))
ReachesThreshold(i) == FracLE(args.confidence_threshold, WindowDetect(i).confidence)

\* C4: every event of analyze_chord_progression comes from a window whose
\* confidence is at least confidence_threshold; with no such window (or no
\* frame at all) the three lists are empty and total_chords is 0; total_chords
\* is always the length of each list.
C4_OnlyConfidentWindows ==
    AnalyzeReturned =>
        /\ ret.total_chords = Len(ret.chord_times)
        /\ ret.total_chords = Len(ret.chord_labels)
        /\ ret.total_chords = Len(ret.chord_confidences)
        /\ \A c \in 1..ret.total_chords :
               /\ FracLE(args.confidence_threshold, ret.chord_confidences[c])
               /\ \E i \in WindowStarts :
                      /\ ReachesThreshold(i)
                      /\ ret.chord_times[c] = TimesLike(i)
                      /\ ret.chord_labels[c] = WindowDetect(i).label
        /\ (\A i \in WindowStarts : ~ReachesThreshold(i)) =>
               /\ ret.total_chords = 0
               /\ ret.chord_times = <<>>
               /\ ret.chord_labels = <<>>
               /\ ret.chord_confidences = <<>>

\* A call in which one window is kept and another, with a chord in it, dropped.
C4_Witness ==
    /\ AnalyzeReturned
    /\ ret.total_chords >= 1
    /\ \E i \in WindowStarts :
           ~ReachesThreshold(i) /\ WindowDetect(i).label # "N"

(***************************************************************************)
(* Calls of detect_chord_from_chroma on a chroma vector and then on the    *)
(* same vector scaled by k.                                                *)
(***************************************************************************)
MaxEnergy == 2
MaxScale == 3

\* Vectors with at most as many sounding bins as a triad has notes.
MaxActive == Sum12(Template(1))

SparseVector(active, energy) == [j \in Bins |-> IF j \in active THEN energy[j] ELSE 0]

ChromaVectors(maxEnergy) ==
    UNION {{SparseVector(active, energy) : energy \in [active -> 1..maxEnergy]} :
           active \in {a \in SUBSET Bins : Cardinality(a) <= MaxActive}}

Scale(k, v) == [j \in Bins |-> k * v[j]]

AsRational(v) == [num |-> v, den |-> 1]

InitDetect ==
    /\ fn = "detect_chord_from_chroma"
    /\ pc = "call"
    /\ args \in [chroma_vector : ChromaVectors(MaxEnergy)]
    /\ ret = NoResult

CallDetectChordFromChroma ==
    /\ fn = "detect_chord_from_chroma" /\ pc = "call"
    /\ ret' = [v |-> DetectChordFromChroma(AsRational(args.chroma_vector))]
    /\ pc' = "return"
    /\ UNCHANGED <<fn, args>>

\* A second call, on k times the vector of the first.
CallDetectChordFromScaledChroma ==
    /\ fn = "detect_chord_from_chroma" /\ pc = "return"
    /\ \E k \in 2..MaxScale :
           ret' = [v |-> ret.v, k |-> k,
                   kv |-> DetectChordFromChroma(
                              AsRational(Scale(k, args.chroma_vector)))]
    /\ pc' = "rescaled"
    /\ UNCHANGED <<fn, args>>

NextDetect ==
    \/ CallDetectChordFromChroma
    \/ CallDetectChordFromScaledChroma

SpecDetect == InitDetect /\ [][NextDetect]_vars

\* C5: the label tells the root and the quality of the best-matching
\* template: no other of the 24 templates is given the label returned.
C5_LabelIdentifiesTemplate ==
    (fn = "detect_chord_from_chroma" /\ pc = "return" /\ ret.v.best # 0) =>
        \A t \in 1..NumTemplates :
            t # ret.v.best =>
                ChordLabel(TemplateRoot(t), TemplateQuality(t)) # ret.v.label

\* C6: for a non-negative vector v with positive sum and k > 0, the calls on
\* v and on k*v return the same label and the same confidence.
C6_ScaleInvariant ==
    (fn = "detect_chord_from_chroma" /\ pc = "rescaled"
        /\ Sum12(args.chroma_vector) > 0) =>
        /\ ret.kv.label = ret.v.label
        /\ ret.kv.confidence = ret.v.confidence

\* A vector that matches a chord, though not exactly, scaled by 3.
C6_Witness ==
    /\ fn = "detect_chord_from_chroma" /\ pc = "rescaled"
    /\ ret.k = 3
    /\ ret.v.label = "AM"
    /\ ret.v.confidence # One
    /\ Sum12(args.chroma_vector) = 4

\* C18: each of the 24 chord templates has exactly three non-zero bins, at
\* the root, the third (root + 4 for major, root + 3 for minor) and the
\* fifth (root + 7), modulo 12: the template of root r is the C template of
\* the same quality rotated by r bins.  Stated of the templates a call of
\* detect_chord_from_chroma compares the chroma vector with.
C18_TemplatesAreTriads ==
    fn = "detect_chord_from_chroma" =>
        \A t \in 1..NumTemplates :
            LET root == TemplateRoot(t) - 1
                third == IF TemplateQuality(t) = "major" THEN 4 ELSE 3
            IN  /\ {j \in Bins : Template(t)[j] # 0} =
                       {root + 1, ((root + third) % 12) + 1, ((root + 7) % 12) + 1}
                /\ \A j \in Bins :
                       Template(t)[j] =
                           Template(((t - 1) % 2) + 1)[((j - 1 - root + 12) % 12) + 1]

DetectReturned == fn = "detect_chord_from_chroma" /\ pc = "return"

\* The similarity of the call's chroma vector to template t.
TemplateSimilarity(t) ==
    Similarity(NormalizeChroma(AsRational(args.chroma_vector)),
               NormalizeTemplate(Template(t)))

IsPositive(similarity) == ~IsNaN(similarity) /\ FracLT(Zero, similarity)

\* C19: the winner of detect_chord_from_chroma is the first template, in the
\* order C major, C minor, C# major, ..., B minor, among those of maximal
\* positive similarity; when no template has a similarity > 0 the result
\* is the label "N" with confidence 0.
C19_FirstBestTemplateWins ==
    DetectReturned =>
        LET positive == {t \in 1..NumTemplates : IsPositive(TemplateSimilarity(t))}
            best == {t \in positive :
                        \A u \in positive :
                            FracLE(TemplateSimilarity(u), TemplateSimilarity(t))}
        IN  IF positive = {}
            THEN ret.v.label = "N" /\ ret.v.confidence = Zero
            ELSE /\ ret.v.best \in best
                 /\ \A t \in best : ret.v.best <= t
                 /\ ret.v.confidence = TemplateSimilarity(ret.v.best)
                 /\ ret.v.label = ChordLabel(TemplateRoot(ret.v.best),
                                             TemplateQuality(ret.v.best))

\* The lone pitch class D is equally similar to D major and D minor, the
\* only templates it belongs to: the major one, enumerated first, wins.
C19_Witness ==
    /\ DetectReturned
    /\ args.chroma_vector = [j \in Bins |-> IF j = 3 THEN 1 ELSE 0]
    /\ TemplateSimilarity(5) = TemplateSimilarity(6)
    /\ ret.v.best = 5
    /\ ret.v.confidence = TemplateSimilarity(5)

(***************************************************************************)
(* Natural numbers beyond the machine word, for the products that compare  *)
(* two correlations exactly: a number is the sequence of its digits in     *)
(* base 1000, lowest first, without leading zeros (0 is the empty          *)
(* sequence).                                                              *)
(***************************************************************************)
BigBase == 1000

RECURSIVE ToBig(_)
ToBig(x) == IF x = 0 THEN <<>> ELSE <<x % BigBase>> \o ToBig(x \div BigBase)

RECURSIVE BigAddCarry(_, _, _)
BigAddCarry(a, b, carry) ==
    IF a = <<>> /\ b = <<>>
    THEN ToBig(carry)
    ELSE LET x == IF a = <<>> THEN 0 ELSE Head(a)
             y == IF b = <<>> THEN 0 ELSE Head(b)
             t == x + y + carry
         IN  <<t % BigBase>> \o
             BigAddCarry(IF a = <<>> THEN a ELSE Tail(a),
                         IF b = <<>> THEN b ELSE Tail(b), t \div BigBase)

BigAdd(a, b) == BigAddCarry(a, b, 0)

\* a times one digit d, 0 < d < BigBase.
RECURSIVE BigMulDigit(_, _, _)
BigMulDigit(a, d, carry) ==
    IF a = <<>>
    THEN ToBig(carry)
    ELSE LET t == Head(a) * d + carry
         IN  <<t % BigBase>> \o BigMulDigit(Tail(a), d, t \div BigBase)

RECURSIVE BigMul(_, _)
BigMul(a, b) ==
    IF a = <<>> \/ b = <<>>
    THEN <<>>
    ELSE LET rest == BigMul(a, Tail(b))
             shifted == IF rest = <<>> THEN rest ELSE <<0>> \o rest
         IN  IF Head(b) = 0 THEN shifted
             ELSE BigAdd(BigMulDigit(a, Head(b), 0), shifted)

RECURSIVE BigLessFrom(_, _, _)
BigLessFrom(a, b, i) ==
    IF i = 0 THEN FALSE
    ELSE IF a[i] # b[i] THEN a[i] < b[i]
    ELSE BigLessFrom(a, b, i - 1)

BigLess(a, b) ==
    IF Len(a) # Len(b) THEN Len(a) < Len(b) ELSE BigLessFrom(a, b, Len(a))

(***************************************************************************)
(* chords.py, detect_key_from_chroma (lines 188-231).                      *)
(***************************************************************************)
\* Lines 202-203, in hundredths.
major_profile == <<635, 223, 348, 233, 438, 409, 252, 519, 239, 366, 229, 288>>
minor_profile == <<633, 268, 352, 538, 260, 353, 254, 475, 398, 269, 334, 317>>

\* np.roll(v, i): element j of the result is element j - i of v (bins 1..12).
RollBackward(v, i) == [j \in Bins |-> v[((j - 1 + i) % 12) + 1]]

Roll(v, i) == [j \in Bins |-> v[((j - 1 - i + 12) % 12) + 1]]

\* Line 199: np.mean(chroma, axis=1) of a matrix of at least one frame.
AverageChroma(chroma) == [num |-> SumFrames(chroma, 0, Len(chroma)), den |-> Len(chroma)]

\* np.corrcoef(x, y)[0, 1] for x = xs.num / xs.den: with n = 12,
\*   cov = n*Sum(x y) - Sum(x) Sum(y),  vx = n*Sum(x x) - Sum(x)^2,  vy likewise,
\* the coefficient is cov / sqrt(vx * vy); the factor 1/den of cov and 1/den^2
\* of vx cancel, so the three are taken on xs.num.  A zero variance gives NaN.
\* The coefficient is kept as [cov, vx, vy], its value being
\* sign(cov) * sqrt(cov^2 / (vx * vy)).
Corrcoef(xs, y) ==
    LET x == xs.num
        cov == 12 * Dot12(x, y) - Sum12(x) * Sum12(y)
        vx == 12 * Dot12(x, x) - Sum12(x) * Sum12(x)
        vy == 12 * Dot12(y, y) - Sum12(y) * Sum12(y)
    IN  IF vx = 0 \/ vy = 0 THEN NaN ELSE [cov |-> cov, vx |-> vx, vy |-> vy]

\* |a| < |b| for two coefficients: a.cov^2 * b.vx * b.vy < b.cov^2 * a.vx * a.vy.
CorrSquareLess(a, b) ==
    BigLess(BigMul(BigMul(ToBig(Abs(a.cov)), ToBig(Abs(a.cov))),
                   BigMul(ToBig(b.vx), ToBig(b.vy))),
            BigMul(BigMul(ToBig(Abs(b.cov)), ToBig(Abs(b.cov))),
                   BigMul(ToBig(a.vx), ToBig(a.vy))))

\* Lines 220 and 226: corr > best_confidence; a comparison with NaN is false.
CorrGreater(corr, best_confidence) ==
    IF IsNaN(corr) THEN FALSE
    ELSE IF corr.cov > 0
         THEN best_confidence.cov <= 0 \/ CorrSquareLess(best_confidence, corr)
         ELSE best_confidence.cov < 0 /\ CorrSquareLess(corr, best_confidence)

\* Line 231: f"{best_key} {best_mode}".
KeyLabel(i, mode) == NOTE_NAMES[i + 1] \o " " \o mode

\* Lines 205-229: the loop over the 12 rotations, i = 0 .. 11; acc is
\* (best_confidence, best_key, best_mode) on entry to iteration i.
RECURSIVE KeyLoop(_, _, _)
KeyLoop(avg_chroma, i, acc) ==
    IF i > 11
    THEN acc
    ELSE LET major_corr == Corrcoef(avg_chroma, Roll(major_profile, i))
             minor_corr == Corrcoef(avg_chroma, Roll(minor_profile, i))
             major_wins == CorrGreater(major_corr, acc.best_confidence)
             afterMajor ==
                 IF major_wins
                 THEN [best_confidence |-> major_corr, best_key |-> NOTE_NAMES[i + 1],
                       best_mode |-> "major"]
                 ELSE acc
             minor_wins == CorrGreater(minor_corr, afterMajor.best_confidence)
         IN  IF minor_wins
             THEN KeyLoop(avg_chroma, i + 1,
                          [best_confidence |-> minor_corr,
                           best_key |-> NOTE_NAMES[i + 1], best_mode |-> "minor"])
             ELSE KeyLoop(avg_chroma, i + 1, afterMajor)

\* best_confidence = 0.0 is the coefficient [0, 1, 1].
DetectKeyFromChroma(chroma) ==
    LET best == KeyLoop(AverageChroma(chroma), 0,
                        [best_confidence |-> [cov |-> 0, vx |-> 1, vy |-> 1],
                         best_key |-> "C", best_mode |-> "major"])
    IN  [key |-> best.best_key \o " " \o best.best_mode,
         confidence |-> best.best_confidence]

(***************************************************************************)
(* Calls of detect_key_from_chroma on a chroma matrix and then on the same *)
(* matrix with its 12 rows rolled by one semitone, up or down.             *)
(***************************************************************************)
MaxKeyFrames == 2

\* Frames: silence, a flat spectrum, the triads C-E-G, B-D#-F# and A-C-E,
\* the augmented triad D#-G-B, and a lone B.
KeyFrames ==
    {ZeroVector,
     <<1, 1, 1, 1, 1, 1, 1, 1, 1, 1, 1, 1>>,
     <<1, 0, 0, 0, 1, 0, 0, 1, 0, 0, 0, 0>>,
     <<0, 0, 0, 1, 0, 0, 1, 0, 0, 0, 0, 1>>,
     <<1, 0, 0, 0, 1, 0, 0, 0, 0, 1, 0, 0>>,
     <<0, 0, 0, 1, 0, 0, 0, 1, 0, 0, 0, 1>>,
     <<0, 0, 0, 0, 0, 0, 0, 0, 0, 0, 0, 2>>}

KeyInputs(maxFrames) == UNION {[chroma : SeqsOf(KeyFrames, n)] : n \in 1..maxFrames}

\* The matrix transposed by d semitones: the energy of pitch class j - d is
\* moved to pitch class j, in every frame.
ShiftRows(chroma, d) ==
    [f \in DOMAIN chroma |-> [j \in Bins |-> chroma[f][((j - 1 - d + 12) % 12) + 1]]]

InitKey ==
    /\ fn = "detect_key_from_chroma"
    /\ pc = "call"
    /\ args \in KeyInputs(MaxKeyFrames)
    /\ ret = NoResult

CallDetectKeyFromChroma ==
    /\ fn = "detect_key_from_chroma" /\ pc = "call"
    /\ ret' = [original |-> DetectKeyFromChroma(args.chroma)]
    /\ pc' = "return"
    /\ UNCHANGED <<fn, args>>

\* A second call, on the matrix transposed by one semitone up (1) or down (11).
CallDetectKeyFromShiftedChroma ==
    /\ fn = "detect_key_from_chroma" /\ pc = "return"
    /\ \E d \in {1, 11} :
           ret' = [original |-> ret.original, shift |-> d,
                   shifted |-> DetectKeyFromChroma(ShiftRows(args.chroma, d))]
    /\ pc' = "shifted"
    /\ UNCHANGED <<fn, args>>

NextKey ==
    \/ CallDetectKeyFromChroma
    \/ CallDetectKeyFromShiftedChroma

SpecKey == InitKey /\ [][NextKey]_vars

Modes == {"major", "minor"}
KeyCandidates == (0..11) \X Modes
CandidateCorr(chroma, c) ==
    Corrcoef(AverageChroma(chroma),
             Roll(IF c[2] = "major" THEN major_profile ELSE minor_profile, c[1]))

\* One (rotation, mode) pair correlates positively and strictly better than
\* every other.
UniqueBestKey(chroma) ==
    \E c \in KeyCandidates :
        /\ ~IsNaN(CandidateCorr(chroma, c))
        /\ CandidateCorr(chroma, c).cov > 0
        /\ \A o \in KeyCandidates \ {c} :
               CorrGreater(CandidateCorr(chroma, c), CandidateCorr(chroma, o))

Transposed ==
    /\ \E i \in 0..11, mode \in Modes :
           /\ ret.original.key = KeyLabel(i, mode)
           /\ ret.shifted.key = KeyLabel((i + ret.shift) % 12, mode)
    /\ ret.shifted.confidence = ret.original.confidence

\* C7 as stated: for every chroma matrix, rolling the rows by one semitone
\* moves the detected tonic by one semitone (mod 12) and keeps the mode and
\* the confidence.
C7_RotationConsistent ==
    (fn = "detect_key_from_chroma" /\ pc = "shifted") => Transposed

\* C7, amended: the same, for the matrices whose best (rotation, mode) pair
\* is unique and correlates positively.
C7_RotationConsistentUniqueBest ==
    (fn = "detect_key_from_chroma" /\ pc = "shifted"
        /\ UniqueBestKey(args.chroma)) => Transposed

\* B major transposed up: the tonic wraps round from B to C.
C7_Witness ==
    /\ fn = "detect_key_from_chroma" /\ pc = "shifted"
    /\ UniqueBestKey(args.chroma)
    /\ ret.shift = 1
    /\ ret.original.key = "B major"
    /\ ret.shifted.key = "C major"

(***************************************************************************)
(* timing.py.  Times are whole ticks, TicksPerSecond to the second, and    *)
(* the tempi are those whose beat interval 60/tempo is a whole number of   *)
(* ticks, so that every time the code computes is exact.                   *)
(***************************************************************************)
TicksPerSecond == 40
MinTempo == 200
MaxTempo == 240

Tempos == {tempo \in MinTempo..MaxTempo : (60 * TicksPerSecond) % tempo = 0}

\* Lines 74 and 112: beat_interval = 60.0 / tempo, in ticks.
BeatInterval(tempo) == (60 * TicksPerSecond) \div tempo

\* detect_downbeats (lines 58-94): the loop over beat_times from index i on.
\* Line 88's tolerance is beat_interval * 0.1, so `x < tolerance' is
\* 10 * x < beat_interval.
RECURSIVE DownbeatLoop(_, _, _, _, _)
DownbeatLoop(beat_times, tempo, i, current_measure_start, downbeats) ==
    IF i > Len(beat_times)
    THEN downbeats
    ELSE LET beat_interval == BeatInterval(tempo)
             measure_duration == beat_interval * 4
             beat_time == beat_times[i]
             time_since_measure == (beat_time - current_measure_start) % measure_duration
         IN  IF \/ 10 * time_since_measure < beat_interval
                \/ 10 * (measure_duration - time_since_measure) < beat_interval
             THEN DownbeatLoop(beat_times, tempo, i + 1, beat_time,
                               Append(downbeats, beat_time))
             ELSE DownbeatLoop(beat_times, tempo, i + 1, current_measure_start,
                               downbeats)

\* The exception 60.0 / tempo raises for the float tempo = 0.
ZeroDivisionError == [raised |-> "ZeroDivisionError"]

DetectDownbeats(beat_times, tempo) ==
    IF Len(beat_times) = 0
    THEN <<>>
    ELSE IF tempo = 0
         THEN ZeroDivisionError
         ELSE DownbeatLoop(beat_times, tempo, 1, beat_times[1], <<>>)

\* The grid loop with `<' for the `<=' of line 121.
RECURSIVE RefineLoopStrict(_, _, _, _)
RefineLoopStrict(current_time, beat_interval, duration, refined_beats) ==
    IF current_time < duration
    THEN RefineLoopStrict(current_time + beat_interval, beat_interval, duration,
                          Append(refined_beats, current_time))
    ELSE refined_beats

\* refine_beat_grid (lines 97-125): the while loop of lines 121-123.
RECURSIVE RefineLoop(_, _, _, _)
RefineLoop(current_time, beat_interval, duration, refined_beats) ==
    IF current_time <= duration
    THEN RefineLoop(current_time + beat_interval, beat_interval, duration,
                    Append(refined_beats, current_time))
    ELSE refined_beats

RefineBeatGrid(beat_times, tempo, duration) ==
    IF beat_times = <<>>
    THEN <<>>
    ELSE IF tempo = 0
         THEN ZeroDivisionError
         ELSE RefineLoop(beat_times[1], BeatInterval(tempo), duration, <<>>)

\* analyze_tempo_and_beats (lines 13-55): `tracked' is what the beat tracker
\* gave, the tempo and the beat times of line 33.
AnalyzeTempoAndBeats(tracked, duration) ==
    [bpm |-> tracked.tempo,
     beat_times |-> tracked.beat_times,
     downbeat_times |-> DetectDownbeats(tracked.beat_times, tracked.tempo),
     total_beats |-> Len(tracked.beat_times),
     duration |-> duration]

\* create_beat_grid (lines 264-300).
CreateBeatGrid(tracked, duration) ==
    LET tempo_analysis == AnalyzeTempoAndBeats(tracked, duration)
        refined_beats == RefineBeatGrid(tempo_analysis.beat_times, tempo_analysis.bpm,
                                        tempo_analysis.duration)
    IN  [tempo |-> tempo_analysis.bpm,
         beat_times |-> refined_beats,
         downbeat_times |-> tempo_analysis.downbeat_times,
         duration |-> tempo_analysis.duration,
         total_beats |-> Len(refined_beats)]

(***************************************************************************)
(* Calls of create_beat_grid: a clip of `duration' ticks in which the beat *)
(* tracker found a tempo and up to MaxBeats beats, in ascending order.     *)
(***************************************************************************)
MaxBeats == 2
MaxDuration == 48

RECURSIVE AscendingSeqs(_, _, _)
AscendingSeqs(n, lo, hi) ==
    IF n = 0
    THEN {<<>>}
    ELSE UNION {{<<x>> \o rest : rest \in AscendingSeqs(n - 1, x + 1, hi)} :
                x \in lo..hi}

BeatGridInputs(maxBeats, maxDuration) ==
    UNION {[tracked : [tempo : Tempos,
                       beat_times : UNION {AscendingSeqs(n, 0, duration) :
                                           n \in 0..maxBeats}],
            duration : {duration}] : duration \in 0..maxDuration}

InitBeatGrid ==
    /\ fn = "create_beat_grid"
    /\ pc = "call"
    /\ args \in BeatGridInputs(MaxBeats, MaxDuration)
    /\ ret = NoResult

CallCreateBeatGrid ==
    /\ fn = "create_beat_grid" /\ pc = "call"
    /\ ret' = CreateBeatGrid(args.tracked, args.duration)
    /\ pc' = "return"
    /\ UNCHANGED <<fn, args>>

NextBeatGrid == CallCreateBeatGrid

SpecBeatGrid == InitBeatGrid /\ [][NextBeatGrid]_vars

BeatGridReturned == fn = "create_beat_grid" /\ pc = "return"

C9_DownbeatsAreBeats ==
    BeatGridReturned =>
        \A d \in DOMAIN ret.downbeat_times :
            \E k \in DOMAIN ret.beat_times :
                ret.beat_times[k] = ret.downbeat_times[d]

(***************************************************************************)
(* melody.py, f0_to_midi_notes (lines 52-147).  A contour is a sequence of *)
(* frames [time, frequency, confidence]: the three arrays, index by index. *)
(* Times and durations are whole ticks; confidences and the confidence     *)
(* threshold are tenths; a frequency is given by its place q on a          *)
(* quarter-semitone scale, q = 4 * (69 + 12 * log2(Hz / 440)), so that     *)
(* librosa.hz_to_midi is exactly q / 4.                                    *)
(***************************************************************************)
MIDI_VELOCITY_DEFAULT == 64

\* Line 86: librosa.hz_to_midi, in quarters of a semitone.
HzToMidiQuarters(frequency) == frequency

\* Line 89: np.round(x).astype(int) of x = quarters / 4: to the nearest
\* integer, a tie going to the even one.
RoundQuarters(quarters) ==
    LET floor == quarters \div 4
        rem == quarters % 4
    IN  IF rem < 2 THEN floor
        ELSE IF rem > 2 THEN floor + 1
        ELSE IF floor % 2 = 0 THEN floor ELSE floor + 1

\* Line 77: f0_confidence > confidence_threshold.
IsConfident(frame, confidence_threshold) == frame.confidence > confidence_threshold

\* Line 92: (midi_notes >= 0) & (midi_notes <= 127).
IsValidNote(frame) == frame.note >= 0 /\ frame.note <= 127

\* Lines 78-80 and 93-95: boolean-mask selection, order kept.
RECURSIVE SelectConfident(_, _)
SelectConfident(frames, confidence_threshold) ==
    IF frames = <<>>
    THEN <<>>
    ELSE IF IsConfident(Head(frames), confidence_threshold)
         THEN <<Head(frames)>> \o SelectConfident(Tail(frames), confidence_threshold)
         ELSE SelectConfident(Tail(frames), confidence_threshold)

RECURSIVE SelectValid(_)
SelectValid(frames) ==
    IF frames = <<>>
    THEN <<>>
    ELSE IF IsValidNote(Head(frames))
         THEN <<Head(frames)>> \o SelectValid(Tail(frames))
         ELSE SelectValid(Tail(frames))

RECURSIVE SumSeq(_)
SumSeq(seq) == IF seq = <<>> THEN 0 ELSE Head(seq) + SumSeq(Tail(seq))

\* Lines 116-124 and 137-145: the note dictionary.  np.mean(note_confidence)
\* of confidences in tenths is Sum / (10 * count); int() of a non-negative
\* number is its floor.
MakeNote(current_note, note_start, note_end, note_duration, note_confidence) ==
    [pitch |-> current_note,
     start_time |-> note_start,
     end_time |-> note_end,
     duration |-> note_duration,
     confidence |-> Frac(SumSeq(note_confidence), 10 * Len(note_confidence)),
     velocity |-> (MIDI_VELOCITY_DEFAULT * SumSeq(note_confidence))
                      \div (10 * Len(note_confidence))]

\* CloseNote without the test of the upper limit.
CloseNoteNoMax(notes, current_note, note_start, note_end, note_confidence, min_note_duration, max_note_duration) ==
    LET note_duration == note_end - note_start
    IN  IF min_note_duration <= note_duration
        THEN Append(notes, MakeNote(current_note, note_start, note_end, note_duration,
                                    note_confidence))
        ELSE notes

\* Lines 111-124 and 133-145: close the current note, keeping it only within
\* the duration limits.
CloseNote(notes, current_note, note_start, note_end, note_confidence, min_note_duration, max_note_duration) ==
    LET note_duration == note_end - note_start
    IN  IF min_note_duration <= note_duration /\ note_duration <= max_note_duration
        THEN Append(notes, MakeNote(current_note, note_start, note_end, note_duration,
                                    note_confidence))
        ELSE notes

\* A segmentation loop that closes the note at every frame.
RECURSIVE SegmentLoopAlwaysSplit(_, _, _, _, _, _, _, _)
SegmentLoopAlwaysSplit(valid, i, current_note, note_start, note_confidence, notes, min_note_duration, max_note_duration) ==
    IF i > Len(valid)
    THEN CloseNote(notes, current_note, note_start, valid[Len(valid)].time,
                   note_confidence, min_note_duration, max_note_duration)
    ELSE SegmentLoopAlwaysSplit(valid, i + 1, valid[i].note, valid[i].time,
                                <<valid[i].confidence>>,
                                CloseNote(notes, current_note, note_start,
                                          valid[i - 1].time, note_confidence,
                                          min_note_duration, max_note_duration),
                                min_note_duration, max_note_duration)

\* A segmentation loop in which the note after a dropped candidate starts
\* where the dropped candidate started.
RECURSIVE SegmentLoopAbsorbDropped(_, _, _, _, _, _, _, _)
SegmentLoopAbsorbDropped(valid, i, current_note, note_start, note_confidence, notes, min_note_duration, max_note_duration) ==
    IF i > Len(valid)
    THEN CloseNote(notes, current_note, note_start, valid[Len(valid)].time,
                   note_confidence, min_note_duration, max_note_duration)
    ELSE IF valid[i].note = current_note
         THEN SegmentLoopAbsorbDropped(valid, i + 1, current_note, note_start,
                                       Append(note_confidence, valid[i].confidence),
                                       notes, min_note_duration, max_note_duration)
         ELSE LET closed == CloseNote(notes, current_note, note_start,
                                      valid[i - 1].time, note_confidence,
                                      min_note_duration, max_note_duration)
              IN  SegmentLoopAbsorbDropped(valid, i + 1, valid[i].note,
                                           IF closed = notes THEN note_start
                                                             ELSE valid[i].time,
                                           <<valid[i].confidence>>, closed,
                                           min_note_duration, max_note_duration)

\* Lines 105-145: the segmentation loop over the valid frames, i = 2 .. n in
\* 1-based indices, then the last note.
RECURSIVE SegmentLoop(_, _, _, _, _, _, _, _)
SegmentLoop(valid, i, current_note, note_start, note_confidence, notes, min_note_duration, max_note_duration) ==
    IF i > Len(valid)
    THEN CloseNote(notes, current_note, note_start, valid[Len(valid)].time,
                   note_confidence, min_note_duration, max_note_duration)
    ELSE IF valid[i].note = current_note
         THEN SegmentLoop(valid, i + 1, current_note, note_start,
                          Append(note_confidence, valid[i].confidence), notes,
                          min_note_duration, max_note_duration)
         ELSE SegmentLoop(valid, i + 1, valid[i].note, valid[i].time,
                          <<valid[i].confidence>>,
                          CloseNote(notes, current_note, note_start, valid[i - 1].time,
                                    note_confidence, min_note_duration,
                                    max_note_duration),
                          min_note_duration, max_note_duration)

F0ToMidiNotes(f0, confidence_threshold, min_note_duration, max_note_duration) ==
    LET confident == SelectConfident(f0, confidence_threshold)
        midi == [k \in DOMAIN confident |->
                     [time |-> confident[k].time,
                      note |-> RoundQuarters(HzToMidiQuarters(confident[k].frequency)),
                      confidence |-> confident[k].confidence]]
        valid == SelectValid(midi)
    IN  IF confident = <<>> \/ valid = <<>>
        THEN <<>>
        ELSE SegmentLoop(valid, 2, valid[1].note, valid[1].time,
                         <<valid[1].confidence>>, <<>>,
                         min_note_duration, max_note_duration)

(***************************************************************************)
(* Calls of f0_to_midi_notes: contours of up to MaxF0Frames frames at      *)
(* ascending times up to MaxF0Time.                                        *)
(***************************************************************************)
MaxF0Frames == 3
MaxF0Time == 4

\* Below MIDI 0 (-0.75), 68.75 and 69 (both rounding to 69), 69.5 (to 70).
F0Frequencies == {-3, 275, 276, 278}
F0Confidences == {4, 8}
ConfidenceThresholds == {3, 5}
MinNoteDurations == {0, 2}
MaxNoteDurations == {1, 3}

F0Contours(maxFrames, maxTime) ==
    UNION {{[k \in 1..n |-> [time |-> times[k], frequency |-> fc[k][1],
                             confidence |-> fc[k][2]]] :
            times \in AscendingSeqs(n, 0, maxTime),
            fc \in SeqsOf(F0Frequencies \X F0Confidences, n)} :
           n \in 0..maxFrames}

InitMelody ==
    /\ fn = "f0_to_midi_notes"
    /\ pc = "call"
    /\ args \in [f0 : F0Contours(MaxF0Frames, MaxF0Time),
                 confidence_threshold : ConfidenceThresholds,
                 min_note_duration : MinNoteDurations,
                 max_note_duration : MaxNoteDurations]
    /\ ret = NoResult

CallF0ToMidiNotes ==
    /\ fn = "f0_to_midi_notes" /\ pc = "call"
    /\ ret' = F0ToMidiNotes(args.f0, args.confidence_threshold,
                            args.min_note_duration, args.max_note_duration)
    /\ pc' = "return"
    /\ UNCHANGED <<fn, args>>

NextMelody == CallF0ToMidiNotes

SpecMelody == InitMelody /\ [][NextMelody]_vars

MelodyReturned == fn = "f0_to_midi_notes" /\ pc = "return"

\* C10: every note f0_to_midi_notes returns has
\* min_note_duration <= duration <= max_note_duration and
\* duration = end_time - start_time.
C10_DurationWithinLimits ==
    MelodyReturned =>
        \A k \in DOMAIN ret :
            /\ args.min_note_duration <= ret[k].duration
            /\ ret[k].duration <= args.max_note_duration
            /\ ret[k].duration = ret[k].end_time - ret[k].start_time

\* Three valid frames: a note as long as the upper limit allows is kept, and
\* the one after it, shorter than the lower limit, is dropped.
C10_Witness ==
    /\ MelodyReturned
    /\ Len(args.f0) = 3
    /\ \A k \in 1..3 : args.f0[k].frequency > 0 /\ args.f0[k].confidence = 8
    /\ args.min_note_duration = 2
    /\ Len(ret) = 1
    /\ ret[1].duration = args.max_note_duration
    /\ ret[1].end_time < args.f0[3].time

(***************************************************************************)
(* The frames f0_to_midi_notes segments, and their maximal runs of equal   *)
(* rounded pitch, stated without the loop.                                 *)
(***************************************************************************)
\* The frames that pass both filters, each with its rounded pitch.
SurvivingFrames(f0, confidence_threshold) ==
    LET kept == {k \in DOMAIN f0 :
                    /\ f0[k].confidence > confidence_threshold
                    /\ RoundQuarters(f0[k].frequency) \in 0..127}
        Nth(j) == CHOOSE k \in kept : Cardinality({m \in kept : m < k}) = j - 1
    IN  [j \in 1..Cardinality(kept) |->
             [time |-> f0[Nth(j)].time,
              note |-> RoundQuarters(f0[Nth(j)].frequency),
              confidence |-> f0[Nth(j)].confidence]]

PitchRunStarts(frames) ==
    {s \in DOMAIN frames : s = 1 \/ frames[s].note # frames[s - 1].note}

PitchRunEnd(frames, s) ==
    CHOOSE e \in s..Len(frames) :
        /\ \A k \in s..e : frames[k].note = frames[s].note
        /\ e = Len(frames) \/ frames[e + 1].note # frames[s].note

RECURSIVE ConfidenceSum(_, _, _)
ConfidenceSum(frames, s, e) ==
    IF s > e THEN 0 ELSE frames[s].confidence + ConfidenceSum(frames, s + 1, e)

\* The note is the candidate of the run that starts at frame s.
IsCandidateOf(note, frames, s) ==
    LET e == PitchRunEnd(frames, s)
    IN  /\ note.pitch = frames[s].note
        /\ note.start_time = frames[s].time
        /\ note.end_time = frames[e].time
        /\ note.confidence = Frac(ConfidenceSum(frames, s, e), 10 * (e - s + 1))

\* C11: the notes f0_to_midi_notes returns are, in order, the candidates of
\* the maximal runs of equal rounded pitch among the frames that pass the
\* confidence and pitch-range filters (start = time of the run's first
\* frame, end = time of its last frame, confidence = mean of the run's
\* confidences), one for each run whose duration is within the limits; so
\* two consecutive surviving frames of equal rounded pitch are never split.
C11_MaximalPitchRuns ==
    MelodyReturned =>
        LET frames == SurvivingFrames(args.f0, args.confidence_threshold)
            emitted == {s \in PitchRunStarts(frames) :
                           LET d == frames[PitchRunEnd(frames, s)].time - frames[s].time
                           IN  args.min_note_duration <= d /\ d <= args.max_note_duration}
        IN  /\ Len(ret) = Cardinality(emitted)
            /\ \A k \in DOMAIN ret :
                   \E s \in emitted :
                       /\ Cardinality({t \in emitted : t < s}) = k - 1
                       /\ IsCandidateOf(ret[k], frames, s)

\* Frequencies 68.75 and 69 (both rounding to 69) with confidences 0.4 and
\* 0.8 are returned as one note of confidence 0.6, followed by a note of
\* pitch 70.
C11_Witness ==
    /\ MelodyReturned
    /\ Len(args.f0) = 3
    /\ args.f0[1].frequency = 275 /\ args.f0[2].frequency = 276
    /\ args.f0[3].frequency = 278
    /\ args.f0[1].confidence = 4 /\ args.f0[2].confidence = 8
    /\ args.confidence_threshold = 3
    /\ Len(ret) = 2
    /\ ret[1].start_time = args.f0[1].time /\ ret[1].end_time = args.f0[2].time
    /\ ret[1].confidence = Frac(6, 10)
    /\ ret[2].pitch = 70

\* C12: every note f0_to_midi_notes returns has start_time < end_time (the
\* frame times of every contour here are strictly increasing and
\* min_note_duration >= 0).
C12_StartBeforeEnd ==
    MelodyReturned => \A k \in DOMAIN ret : ret[k].start_time < ret[k].end_time

(***************************************************************************)
(* melody.py, quantize_notes_to_beats (lines 150-195).  Times are exact    *)
(* fractions of a second.                                                  *)
(***************************************************************************)
\* config.py line 15: 0.1 seconds.
MELODY_MIN_NOTE_DURATION == Frac(1, 10)

\* np.abs(a - b).
FracAbsDiff(a, b) == IF FracLT(a, b) THEN FracSub(b, a) ELSE FracSub(a, b)

\* An argmin that takes the first beat, whatever the time.
ArgMinFirstBeat(beat_times, t) == 1

\* Lines 173-174: np.argmin(np.abs(np.array(beat_times) - t)), the first
\* index (1-based here) of the smallest distance.
ArgMin(beat_times, t) ==
    CHOOSE i \in DOMAIN beat_times :
        /\ \A j \in DOMAIN beat_times :
               FracLE(FracAbsDiff(beat_times[i], t), FracAbsDiff(beat_times[j], t))
        /\ \A j \in 1..(i - 1) :
               FracLT(FracAbsDiff(beat_times[i], t), FracAbsDiff(beat_times[j], t))

\* The loop body taken at full strength, whatever the strength given.
QuantizeNoteFullSnap(note, beat_times, quantization_strength) ==
    LET quantized_start == beat_times[ArgMin(beat_times, note.start_time)]
        quantized_end == beat_times[ArgMin(beat_times, note.end_time)]
        new_end == IF FracLT(FracSub(quantized_end, quantized_start),
                             MELODY_MIN_NOTE_DURATION)
                   THEN FracAdd(quantized_start, MELODY_MIN_NOTE_DURATION)
                   ELSE quantized_end
    IN  [note EXCEPT !.start_time = quantized_start, !.end_time = new_end,
                     !.duration = FracSub(new_end, quantized_start)]

\* The loop body without the minimum-duration test of lines 185-186.
QuantizeNoteUnclamped(note, beat_times, quantization_strength) ==
    LET quantized_start == beat_times[ArgMin(beat_times, note.start_time)]
        quantized_end == beat_times[ArgMin(beat_times, note.end_time)]
        new_start == FracAdd(FracMul(note.start_time, FracSub(One, quantization_strength)),
                             FracMul(quantized_start, quantization_strength))
        new_end == FracAdd(FracMul(note.end_time, FracSub(One, quantization_strength)),
                           FracMul(quantized_end, quantization_strength))
    IN  [note EXCEPT !.start_time = new_start, !.end_time = new_end,
                     !.duration = FracSub(new_end, new_start)]

\* Lines 172-193: the loop body for one note.
QuantizeNote(note, beat_times, quantization_strength) ==
    LET start_beat_idx == ArgMin(beat_times, note.start_time)
        end_beat_idx == ArgMin(beat_times, note.end_time)
        quantized_start == beat_times[start_beat_idx]
        quantized_end == beat_times[end_beat_idx]
        new_start == FracAdd(FracMul(note.start_time, FracSub(One, quantization_strength)),
                             FracMul(quantized_start, quantization_strength))
        blended_end == FracAdd(FracMul(note.end_time, FracSub(One, quantization_strength)),
                               FracMul(quantized_end, quantization_strength))
        new_end == IF FracLT(FracSub(blended_end, new_start), MELODY_MIN_NOTE_DURATION)
                   THEN FracAdd(new_start, MELODY_MIN_NOTE_DURATION)
                   ELSE blended_end
    IN  [note EXCEPT !.start_time = new_start, !.end_time = new_end,
                     !.duration = FracSub(new_end, new_start)]

\* Lines 166-195.
QuantizeNotesToBeats(notes, beat_times, quantization_strength) ==
    IF beat_times = <<>> \/ notes = <<>>
    THEN notes
    ELSE [k \in DOMAIN notes |-> QuantizeNote(notes[k], beat_times, quantization_strength)]

(***************************************************************************)
(* Calls of quantize_notes_to_beats: notes as f0_to_midi_notes builds them *)
(* (duration = end_time - start_time > 0, in order of time, none starting  *)
(* before the one before it ends), boundaries and beats on a grid of       *)
(* 1/20 s, beats ascending.                                                *)
(***************************************************************************)
MaxQuantNotes == 2
MaxQuantBeats == 2
MaxQuantTime == 5

QuantTime(t) == Frac(t, 20)

\* The notes of the given pitch that start at tick lo or later.
QuantNotes(lo, maxTime, pitch) ==
    {[pitch |-> pitch, start_time |-> QuantTime(se[1]), end_time |-> QuantTime(se[2]),
      duration |-> QuantTime(se[2] - se[1]), confidence |-> Frac(1, 2),
      velocity |-> MIDI_VELOCITY_DEFAULT \div 2] :
         se \in {x \in (lo..maxTime) \X (lo..maxTime) : x[1] < x[2]}}

\* Lists of n notes, each of another pitch, the first starting at lo or later.
RECURSIVE NoteLists(_, _, _)
NoteLists(n, lo, maxTime) ==
    IF n = 0
    THEN {<<>>}
    ELSE UNION {{<<note>> \o rest :
                     rest \in NoteLists(n - 1, FracFloor(FracMul(note.end_time, Frac(20, 1))),
                                        maxTime)} :
                note \in QuantNotes(lo, maxTime, 69 + n)}

QuantBeats(maxBeats, maxTime) ==
    UNION {{[k \in 1..n |-> QuantTime(ticks[k])] : ticks \in AscendingSeqs(n, 0, maxTime)} :
           n \in 0..maxBeats}

QuantizationStrengths == {Zero, Frac(1, 2), One}

InitQuantize ==
    /\ fn = "quantize_notes_to_beats"
    /\ pc = "call"
    /\ args \in [notes : UNION {NoteLists(n, 0, MaxQuantTime) : n \in 0..MaxQuantNotes},
                 beat_times : QuantBeats(MaxQuantBeats, MaxQuantTime),
                 quantization_strength : QuantizationStrengths]
    /\ ret = NoResult

CallQuantizeNotesToBeats ==
    /\ fn = "quantize_notes_to_beats" /\ pc = "call"
    /\ ret' = QuantizeNotesToBeats(args.notes, args.beat_times, args.quantization_strength)
    /\ pc' = "return"
    /\ UNCHANGED <<fn, args>>

NextQuantize == CallQuantizeNotesToBeats

SpecQuantize == InitQuantize /\ [][NextQuantize]_vars

QuantizeReturned == fn = "quantize_notes_to_beats" /\ pc = "return"

SameTimings(a, b) ==
    a.start_time = b.start_time /\ a.end_time = b.end_time /\ a.duration = b.duration

\* C13 as stated: with quantization_strength = 0 and a non-empty beat list,
\* every returned note has the start_time, end_time and duration of the
\* input note.
C13_StrengthZeroIdentity ==
    (QuantizeReturned /\ args.quantization_strength = Zero /\ args.beat_times # <<>>) =>
        /\ Len(ret) = Len(args.notes)
        /\ \A k \in DOMAIN ret : SameTimings(ret[k], args.notes[k])

\* C13 as amended: the same, for the input notes that last at least
\* MELODY_MIN_NOTE_DURATION.
C13_StrengthZeroIdentityLongNotes ==
    (QuantizeReturned /\ args.quantization_strength = Zero /\ args.beat_times # <<>>) =>
        /\ Len(ret) = Len(args.notes)
        /\ \A k \in DOMAIN ret :
               FracLE(MELODY_MIN_NOTE_DURATION, args.notes[k].duration) =>
                   SameTimings(ret[k], args.notes[k])

\* A note of 0.15 s that starts and ends off the beats comes back unchanged.
C13_Witness ==
    /\ QuantizeReturned /\ args.quantization_strength = Zero
    /\ Len(args.beat_times) = 2 /\ Len(args.notes) = 1
    /\ args.notes[1].duration = QuantTime(3)
    /\ \A b \in DOMAIN args.beat_times :
           /\ args.beat_times[b] # args.notes[1].start_time
           /\ args.beat_times[b] # args.notes[1].end_time
    /\ SameTimings(ret[1], args.notes[1])

BeatSet == {args.beat_times[b] : b \in DOMAIN args.beat_times}

IsNearestBeat(beat, t) ==
    /\ beat \in BeatSet
    /\ \A other \in BeatSet : FracLE(FracAbsDiff(beat, t), FracAbsDiff(other, t))

\* C14 as stated: with quantization_strength = 1 and a non-empty beat list,
\* every returned start_time is the beat nearest the original start and
\* every returned end_time the beat nearest the original end, both elements
\* of beat_times.
C14_StrengthOneSnaps ==
    (QuantizeReturned /\ args.quantization_strength = One /\ args.beat_times # <<>>) =>
        \A k \in DOMAIN ret :
            /\ IsNearestBeat(ret[k].start_time, args.notes[k].start_time)
            /\ IsNearestBeat(ret[k].end_time, args.notes[k].end_time)

\* Among equally near beats, the one listed first.
FirstNearestBeat(t) ==
    LET i == CHOOSE i \in DOMAIN args.beat_times :
                 /\ IsNearestBeat(args.beat_times[i], t)
                 /\ \A j \in 1..(i - 1) : ~IsNearestBeat(args.beat_times[j], t)
    IN  args.beat_times[i]

\* C14 as amended: the start is the beat nearest the original start; the end
\* is the beat nearest the original end when that beat lies at least
\* MELODY_MIN_NOTE_DURATION after the returned start, and otherwise the
\* returned start plus MELODY_MIN_NOTE_DURATION; of equally near beats the
\* first in beat_times counts.
C14_StrengthOneSnapsOrClamps ==
    (QuantizeReturned /\ args.quantization_strength = One /\ args.beat_times # <<>>) =>
        \A k \in DOMAIN ret :
            LET snapped_end == FirstNearestBeat(args.notes[k].end_time)
            IN  /\ ret[k].start_time = FirstNearestBeat(args.notes[k].start_time)
                /\ ret[k].end_time =
                       IF FracLE(MELODY_MIN_NOTE_DURATION,
                                 FracSub(snapped_end, ret[k].start_time))
                       THEN snapped_end
                       ELSE FracAdd(ret[k].start_time, MELODY_MIN_NOTE_DURATION)

\* A note from 0.05 s to 0.2 s between the beats 0 and 0.25 s is moved onto
\* them.
C14_Witness ==
    /\ QuantizeReturned /\ args.quantization_strength = One
    /\ args.beat_times = <<QuantTime(0), QuantTime(5)>>
    /\ Len(args.notes) = 1
    /\ args.notes[1].start_time = QuantTime(1) /\ args.notes[1].end_time = QuantTime(4)
    /\ ret[1].start_time = QuantTime(0) /\ ret[1].end_time = QuantTime(5)
    /\ ret[1].duration = QuantTime(5)

(***************************************************************************)
(* drums.py, classify_drum_segment (lines 94-139).  The window is given by *)
(* fft = np.abs(np.fft.fft(segment)), one magnitude per bin k = 0 .. n-1   *)
(* (bin k at index k + 1), symmetric as the transform of real samples is;  *)
(* the window is all-zero exactly when every magnitude is zero.            *)
(***************************************************************************)
\* Thresholds of 0.4, which two shares of the energy can exceed together.
DrumThreshLow == [kick_lowband |-> Frac(4, 10), snare_mid |-> Frac(4, 10),
                  hat_high |-> Frac(4, 10)]

\* config.py lines 19-23, as exact fractions.
DRUM_THRESH == [kick_lowband |-> Frac(65, 100), snare_mid |-> Frac(6, 10),
                hat_high |-> Frac(6, 10)]

\* config.py lines 50-54, in Hz.
DRUM_FREQ_BANDS == [kick |-> <<20, 150>>, snare |-> <<150, 800>>, hat |-> <<800, 8000>>]

\* Line 110: np.fft.fftfreq(n, 1/sr)[k] is FftFreqIndex(n, k) * sr / n.
FftFreqIndex(n, k) == IF k <= (n - 1) \div 2 THEN k ELSE k - n

\* Lines 113-120: bin k is kept by pos_mask and lies in the band [lo, hi].
InBand(n, sr, k, band) ==
    LET index == FftFreqIndex(n, k)
    IN  /\ index * sr > 0
        /\ index * sr >= band[1] * n
        /\ index * sr <= band[2] * n

\* Lines 118-120: np.sum of the magnitudes of the bins k .. n-1 in the band.
RECURSIVE BandEnergy(_, _, _, _)
BandEnergy(fft, sr, band, k) ==
    IF k >= Len(fft)
    THEN 0
    ELSE (IF InBand(Len(fft), sr, k, band) THEN fft[k + 1] ELSE 0)
             + BandEnergy(fft, sr, band, k + 1)

\* Lines 127-129: a float64 division; by zero it gives nan (0/0) or inf.
EnergyRatio(energy, total_energy) ==
    IF total_energy = 0 THEN NaN ELSE Frac(energy, total_energy)

\* Lines 132-136: ratio > threshold; a comparison with nan is false.
Exceeds(ratio, threshold) == IF IsNaN(ratio) THEN FALSE ELSE FracLT(threshold, ratio)

\* The classification with `>=' for the three `>' of lines 132-136.
ClassifyByRatiosInclusive(kick_ratio, snare_ratio, hat_ratio) ==
    IF ~IsNaN(kick_ratio) /\ FracLE(DRUM_THRESH.kick_lowband, kick_ratio) THEN "kick"
    ELSE IF ~IsNaN(snare_ratio) /\ FracLE(DRUM_THRESH.snare_mid, snare_ratio) THEN "snare"
    ELSE IF ~IsNaN(hat_ratio) /\ FracLE(DRUM_THRESH.hat_high, hat_ratio) THEN "hat"
    ELSE "unknown"

\* Lines 132-139.
ClassifyByRatios(kick_ratio, snare_ratio, hat_ratio) ==
    IF Exceeds(kick_ratio, DRUM_THRESH.kick_lowband) THEN "kick"
    ELSE IF Exceeds(snare_ratio, DRUM_THRESH.snare_mid) THEN "snare"
    ELSE IF Exceeds(hat_ratio, DRUM_THRESH.hat_high) THEN "hat"
    ELSE "unknown"

\* The function without the test of lines 124-125.
ClassifyDrumSegmentUnguarded(fft, sr) ==
    IF Len(fft) = 0
    THEN [drum_type |-> "unknown", divisors |-> <<>>]
    ELSE LET kick_energy == BandEnergy(fft, sr, DRUM_FREQ_BANDS.kick, 0)
             snare_energy == BandEnergy(fft, sr, DRUM_FREQ_BANDS.snare, 0)
             hat_energy == BandEnergy(fft, sr, DRUM_FREQ_BANDS.hat, 0)
             total_energy == kick_energy + snare_energy + hat_energy
         IN  [drum_type |-> ClassifyByRatios(EnergyRatio(kick_energy, total_energy),
                                             EnergyRatio(snare_energy, total_energy),
                                             EnergyRatio(hat_energy, total_energy)),
              divisors |-> <<sr, total_energy, total_energy, total_energy>>]

\* Lines 105-139: the type returned, and the divisors of the divisions the
\* call executed (1/sr of line 110, total_energy of lines 127-129).
ClassifyDrumSegment(fft, sr) ==
    IF Len(fft) = 0
    THEN [drum_type |-> "unknown", divisors |-> <<>>]
    ELSE LET kick_energy == BandEnergy(fft, sr, DRUM_FREQ_BANDS.kick, 0)
             snare_energy == BandEnergy(fft, sr, DRUM_FREQ_BANDS.snare, 0)
             hat_energy == BandEnergy(fft, sr, DRUM_FREQ_BANDS.hat, 0)
             total_energy == kick_energy + snare_energy + hat_energy
         IN  IF total_energy = 0
             THEN [drum_type |-> "unknown", divisors |-> <<sr>>]
             ELSE [drum_type |-> ClassifyByRatios(EnergyRatio(kick_energy, total_energy),
                                                  EnergyRatio(snare_energy, total_energy),
                                                  EnergyRatio(hat_energy, total_energy)),
                   divisors |-> <<sr, total_energy, total_energy, total_energy>>]

(***************************************************************************)
(* Calls of classify_drum_segment on windows of up to MaxSegmentLength     *)
(* samples.                                                                *)
(***************************************************************************)
MaxSegmentLength == 13

DrumMagnitudes == {0, 2, 3, 13}
EdgeMagnitudes == {0, 3}

\* With 13 samples the bins are 140 Hz or 150 Hz apart, or 3392 Hz at the
\* configured rate.
DrumSampleRates == {1820, 1950, SAMPLE_RATE}

\* The magnitude spectra of the real windows of n samples.
Spectra(n) ==
    IF n = 0
    THEN {<<>>}
    ELSE LET half == (n - 1) \div 2
         IN  {[j \in 1..n |->
                   IF j = 1 THEN edge[1]
                   ELSE IF j - 1 <= half THEN positive[j - 1]
                   ELSE IF 2 * (j - 1) = n THEN edge[2]
                   ELSE positive[n - (j - 1)]] :
              edge \in [1..2 -> EdgeMagnitudes], positive \in [1..half -> DrumMagnitudes]}

InitClassify ==
    /\ fn = "classify_drum_segment"
    /\ pc = "call"
    /\ \E n \in 0..MaxSegmentLength :
           args \in [fft : Spectra(n), sr : DrumSampleRates]
    /\ ret = NoResult

CallClassifyDrumSegment ==
    /\ fn = "classify_drum_segment" /\ pc = "call"
    /\ ret' = ClassifyDrumSegment(args.fft, args.sr)
    /\ pc' = "return"
    /\ UNCHANGED <<fn, args>>

NextClassify == CallClassifyDrumSegment

SpecClassify == InitClassify /\ [][NextClassify]_vars

ClassifyReturned == fn = "classify_drum_segment" /\ pc = "return"

AllZeroWindow(fft) == \A j \in DOMAIN fft : fft[j] = 0

BandEnergies(fft, sr) ==
    [kick |-> BandEnergy(fft, sr, DRUM_FREQ_BANDS.kick, 0),
     snare |-> BandEnergy(fft, sr, DRUM_FREQ_BANDS.snare, 0),
     hat |-> BandEnergy(fft, sr, DRUM_FREQ_BANDS.hat, 0)]

TotalBandEnergy(fft, sr) ==
    BandEnergies(fft, sr).kick + BandEnergies(fft, sr).snare + BandEnergies(fft, sr).hat

\* C15: classify_drum_segment returns "unknown" for every all-zero window,
\* whatever its length (0 and 1 included), and for every window whose three
\* band energies sum to zero, and no division it executed had a zero divisor.
C15_SilenceIsUnknown ==
    (ClassifyReturned /\ (AllZeroWindow(args.fft) \/ TotalBandEnergy(args.fft, args.sr) = 0)) =>
        /\ ret.drum_type = "unknown"
        /\ \A j \in DOMAIN ret.divisors : ret.divisors[j] # 0

\* A window of 13 samples that is not silent but has no energy in the three
\* bands.
C15_Witness ==
    /\ ClassifyReturned
    /\ Len(args.fft) = 13
    /\ ~AllZeroWindow(args.fft)
    /\ TotalBandEnergy(args.fft, args.sr) = 0
    /\ ret.drum_type = "unknown"

\* C20: with non-zero total band energy classify_drum_segment returns the
\* first type in the order kick, snare, hat whose share of the total
\* strictly exceeds its threshold (0.65, 0.6, 0.6), and "unknown" when no
\* share does; a share equal to its threshold does not qualify.
C20_FirstRatioAboveThreshold ==
    (ClassifyReturned /\ TotalBandEnergy(args.fft, args.sr) # 0) =>
        LET energy == BandEnergies(args.fft, args.sr)
            total == TotalBandEnergy(args.fft, args.sr)
        IN  ret.drum_type =
                IF 100 * energy.kick > 65 * total THEN "kick"
                ELSE IF 10 * energy.snare > 6 * total THEN "snare"
                ELSE IF 10 * energy.hat > 6 * total THEN "hat"
                ELSE "unknown"

\* The kick band holds exactly 0.65 of the energy: not a kick.
C20_Witness ==
    /\ ClassifyReturned
    /\ BandEnergies(args.fft, args.sr).kick = 13
    /\ TotalBandEnergy(args.fft, args.sr) = 20
    /\ ret.drum_type = "unknown"

(***************************************************************************)
(* drums.py, create_drum_midi (lines 142-183): the notes of the drum track *)
(* of the PrettyMIDI object built and returned (writing the file, line     *)
(* 181, changes none of them).                                             *)
(***************************************************************************)
\* config.py lines 37-38.
MIDI_DRUM_VELOCITY == 80
MIDI_DRUM_DURATION == Frac(1, 10)

\* config.py lines 41-47.
DRUM_MAPPING == [kick |-> 35, snare |-> 38, closed_hat |-> 42, open_hat |-> 46,
                 crash |-> 49]

\* Lines 165-175: the loop over drum_hits from hit i on.
RECURSIVE DrumNoteLoop(_, _, _)
DrumNoteLoop(drum_hits, i, notes) ==
    IF i > Len(drum_hits)
    THEN notes
    ELSE LET hit == drum_hits[i]
             drum_type == hit.type
         IN  IF drum_type \in DOMAIN DRUM_MAPPING
             THEN DrumNoteLoop(drum_hits, i + 1,
                               Append(notes, [velocity |-> MIDI_DRUM_VELOCITY,
                                              pitch |-> DRUM_MAPPING[drum_type],
                                              start |-> hit.time,
                                              end |-> FracAdd(hit.time, MIDI_DRUM_DURATION)]))
             ELSE DrumNoteLoop(drum_hits, i + 1, notes)

\* Lines 159-183.
CreateDrumMidi(drum_hits, tempo) ==
    [initial_tempo |-> tempo,
     instruments |-> <<[program |-> 0, is_drum |-> TRUE, name |-> "Drums",
                        notes |-> DrumNoteLoop(drum_hits, 1, <<>>)]>>]

(***************************************************************************)
(* Calls of create_drum_midi on hits as classify_drum_hits builds them:    *)
(* the type is one of the four strings classify_drum_segment returns.      *)
(***************************************************************************)
MaxDrumHits == 2
MaxHitTime == 2

DrumTypes == {"kick", "snare", "hat", "unknown"}

DrumHits(maxHits, maxTime) ==
    UNION {SeqsOf([time : {QuantTime(t) : t \in 0..maxTime}, type : DrumTypes], n) :
           n \in 0..maxHits}

InitDrumMidi ==
    /\ fn = "create_drum_midi"
    /\ pc = "call"
    /\ args \in [drum_hits : DrumHits(MaxDrumHits, MaxHitTime), tempo : {120}]
    /\ ret = NoResult

CallCreateDrumMidi ==
    /\ fn = "create_drum_midi" /\ pc = "call"
    /\ ret' = CreateDrumMidi(args.drum_hits, args.tempo)
    /\ pc' = "return"
    /\ UNCHANGED <<fn, args>>

NextDrumMidi == CallCreateDrumMidi

SpecDrumMidi == InitDrumMidi /\ [][NextDrumMidi]_vars

DrumMidiReturned == fn = "create_drum_midi" /\ pc = "return"

\* The hits classified as kick, snare or hat.
ClassifiedHits(drum_hits) ==
    {i \in DOMAIN drum_hits : drum_hits[i].type \in {"kick", "snare", "hat"}}

\* The pitches the mapping table holds for a type (two kinds of hat).
MappedPitches(type) ==
    IF type = "kick" THEN {DRUM_MAPPING.kick}
    ELSE IF type = "snare" THEN {DRUM_MAPPING.snare}
    ELSE {DRUM_MAPPING.closed_hat, DRUM_MAPPING.open_hat}

\* C16: create_drum_midi emits exactly one note for every hit whose type is
\* kick, snare or hat, in order: start = hit time, end = hit time +
\* MIDI_DRUM_DURATION, pitch = the mapping table's entry for the type; the
\* number of notes is the number of such hits.
C16_OneNotePerClassifiedHit ==
    DrumMidiReturned =>
        LET notes == ret.instruments[1].notes
            hits == ClassifiedHits(args.drum_hits)
        IN  /\ Len(notes) = Cardinality(hits)
            /\ \A i \in hits :
                   LET note == notes[Cardinality({j \in hits : j <= i})]
                   IN  /\ note.start = args.drum_hits[i].time
                       /\ note.end = FracAdd(args.drum_hits[i].time, MIDI_DRUM_DURATION)
                       /\ note.pitch \in MappedPitches(args.drum_hits[i].type)

(***************************************************************************)
(* timing.py, detect_time_signature (lines 203-261).  Beat times in ticks. *)
(***************************************************************************)
\* Lines 220 and 227-229: the 0-based indices i + 1 of the beats that follow
\* a gap longer than 1.5 beats (diff > beat_interval * 1.5), from gap i on.
RECURSIVE MeasureBoundaries(_, _, _)
MeasureBoundaries(beat_times, beat_interval, i) ==
    IF i + 2 > Len(beat_times)
    THEN <<>>
    ELSE LET diff == beat_times[i + 2] - beat_times[i + 1]
         IN  (IF 2 * diff > 3 * beat_interval THEN <<i + 1>> ELSE <<>>)
                 \o MeasureBoundaries(beat_times, beat_interval, i + 1)

\* Lines 233-243: the beats in each measure, the last measure included.
RECURSIVE BeatsPerMeasure(_, _, _)
BeatsPerMeasure(measure_boundaries, prev_boundary, total) ==
    IF measure_boundaries = <<>>
    THEN IF total - prev_boundary > 0 THEN <<total - prev_boundary>> ELSE <<>>
    ELSE <<Head(measure_boundaries) - prev_boundary>>
             \o BeatsPerMeasure(Tail(measure_boundaries), Head(measure_boundaries), total)

\* list.count.
Count(seq, x) == Cardinality({k \in DOMAIN seq : seq[k] = x})

\* Line 247: max(set(beats_per_measure), key=beats_per_measure.count) is a
\* most frequent element; which one, among equally frequent ones, depends
\* on the iteration order of the set.
MostFrequent(seq) ==
    {x \in {seq[k] : k \in DOMAIN seq} :
        \A y \in {seq[k] : k \in DOMAIN seq} : Count(seq, y) <= Count(seq, x)}

\* Lines 214-261: the results the call can give.
DetectTimeSignature(beat_times, tempo) ==
    IF Len(beat_times) < 8
    THEN {[numerator |-> 4, denominator |-> 4, confidence |-> Frac(1, 2)]}
    ELSE IF tempo = 0
    THEN {ZeroDivisionError}
    ELSE LET beat_interval == BeatInterval(tempo)
             measure_boundaries == MeasureBoundaries(beat_times, beat_interval, 0)
             beats_per_measure == BeatsPerMeasure(measure_boundaries, 0, Len(beat_times))
         IN  IF measure_boundaries # <<>>
             THEN IF beats_per_measure # <<>>
                  THEN {[numerator |-> numerator, denominator |-> 4,
                         confidence |-> Frac(Count(beats_per_measure, numerator),
                                             Len(beats_per_measure))] :
                        numerator \in MostFrequent(beats_per_measure)}
                  ELSE {[numerator |-> 4, denominator |-> 4, confidence |-> Frac(1, 2)]}
             ELSE {[numerator |-> 4, denominator |-> 4, confidence |-> Frac(3, 10)]}

(***************************************************************************)
(* drums.py, detect_drum_loop (lines 238-287).  Hit times in ticks.        *)
(***************************************************************************)
\* Lines 265 and 273: round((hit_time % beat_interval) / beat_interval, 2),
\* in hundredths; a tie goes to the even hundredth.
RoundedBeatPosition(hit_time, beat_interval) ==
    LET scaled == 100 * (hit_time % beat_interval)
        floor == scaled \div beat_interval
        twice_rest == 2 * (scaled % beat_interval)
    IN  IF twice_rest < beat_interval THEN floor
        ELSE IF twice_rest > beat_interval THEN floor + 1
        ELSE IF floor % 2 = 0 THEN floor ELSE floor + 1

\* Counter(...): the distinct elements in the order of their first
\* occurrence.
RECURSIVE CounterKeys(_, _)
CounterKeys(seq, keys) ==
    IF seq = <<>>
    THEN keys
    ELSE IF \E k \in DOMAIN keys : keys[k] = Head(seq)
         THEN CounterKeys(Tail(seq), keys)
         ELSE CounterKeys(Tail(seq), Append(keys, Head(seq)))

\* most_common without its limit: every element, largest count first.
RECURSIVE MostCommonUnlimited(_, _, _)
MostCommonUnlimited(seq, keys, n) ==
    IF keys = <<>>
    THEN <<>>
    ELSE LET best == CHOOSE k \in DOMAIN keys :
                         /\ \A j \in DOMAIN keys : Count(seq, keys[j]) <= Count(seq, keys[k])
                         /\ \A j \in 1..(k - 1) : Count(seq, keys[j]) < Count(seq, keys[k])
             rest == [j \in 1..(Len(keys) - 1) |-> IF j < best THEN keys[j] ELSE keys[j + 1]]
         IN  <<<<keys[best], Count(seq, keys[best])>>>>
                 \o MostCommonUnlimited(seq, rest, n)

\* Counter.most_common(n): the n largest counts, largest first, equal counts
\* in the order of first occurrence; pairs <<element, count>>.
RECURSIVE MostCommon(_, _, _)
MostCommon(seq, keys, n) ==
    IF n = 0 \/ keys = <<>>
    THEN <<>>
    ELSE LET best == CHOOSE k \in DOMAIN keys :
                         /\ \A j \in DOMAIN keys : Count(seq, keys[j]) <= Count(seq, keys[k])
                         /\ \A j \in 1..(k - 1) : Count(seq, keys[j]) < Count(seq, keys[k])
             rest == [j \in 1..(Len(keys) - 1) |-> IF j < best THEN keys[j] ELSE keys[j + 1]]
         IN  <<<<keys[best], Count(seq, keys[best])>>>> \o MostCommon(seq, rest, n - 1)

RECURSIVE SumCounts(_)
SumCounts(common_positions) ==
    IF common_positions = <<>>
    THEN 0
    ELSE Head(common_positions)[2] + SumCounts(Tail(common_positions))

\* Lines 249-287.  int() of a non-negative quotient is its floor;
\* loop_confidence * len(drum_hits) is the sum of the counts.
DetectDrumLoop(drum_hits, tempo) ==
    IF Len(drum_hits) < 4
    THEN [loop_length |-> 0, loop_confidence |-> Zero, repetitions |-> 0]
    ELSE IF tempo = 0
    THEN ZeroDivisionError
    ELSE LET beat_interval == BeatInterval(tempo)
             beat_positions == [k \in DOMAIN drum_hits |->
                                    RoundedBeatPosition(drum_hits[k].time, beat_interval)]
             common_positions == MostCommon(beat_positions,
                                            CounterKeys(beat_positions, <<>>), 4)
             loop_length == Len(common_positions)
         IN  [loop_length |-> loop_length,
              loop_confidence |-> Frac(SumCounts(common_positions), Len(drum_hits)),
              common_positions |-> [k \in DOMAIN common_positions |->
                                        common_positions[k][1]],
              repetitions |-> IF loop_length > 0
                              THEN SumCounts(common_positions) \div loop_length
                              ELSE 0]

(***************************************************************************)
(* Calls of the three functions that divide by the tempo, the tempo 0      *)
(* included.                                                               *)
(***************************************************************************)
MaxRefineDuration == 24
MaxSignatureBeats == 9
MaxLoopHits == 5
MaxLoopTime == 13

TempoArguments == {0} \cup Tempos

RefineInputs(maxBeats, maxDuration) ==
    UNION {[beat_times : UNION {AscendingSeqs(n, 0, duration) : n \in 0..maxBeats},
            tempo : TempoArguments, duration : {duration}] :
           duration \in 0..maxDuration}

\* Beats from 0 on, each gap 0.3 s or 0.6 s.
RECURSIVE GapBeats(_)
GapBeats(n) ==
    IF n = 0 THEN {<<>>}
    ELSE IF n = 1 THEN {<<0>>}
    ELSE UNION {{Append(beats, beats[n - 1] + gap) : gap \in {12, 24}} :
                beats \in GapBeats(n - 1)}

SignatureInputs(maxBeats) ==
    [beat_times : UNION {GapBeats(n) : n \in 0..maxBeats}, tempo : TempoArguments]

LoopInputs(maxHits, maxTime) ==
    [drum_hits : UNION {{[k \in 1..n |-> [time |-> times[k], type |-> "kick"]] :
                         times \in AscendingSeqs(n, 0, maxTime)} : n \in 0..maxHits},
     tempo : TempoArguments]

InitTempo ==
    /\ pc = "call"
    /\ ret = NoResult
    /\ \/ fn = "refine_beat_grid" /\ args \in RefineInputs(MaxBeats, MaxRefineDuration)
       \/ fn = "detect_time_signature" /\ args \in SignatureInputs(MaxSignatureBeats)
       \/ fn = "detect_drum_loop" /\ args \in LoopInputs(MaxLoopHits, MaxLoopTime)

CallRefineBeatGrid ==
    /\ fn = "refine_beat_grid" /\ pc = "call"
    /\ ret' = RefineBeatGrid(args.beat_times, args.tempo, args.duration)
    /\ pc' = "return"
    /\ UNCHANGED <<fn, args>>

CallDetectTimeSignature ==
    /\ fn = "detect_time_signature" /\ pc = "call"
    /\ ret' \in DetectTimeSignature(args.beat_times, args.tempo)
    /\ pc' = "return"
    /\ UNCHANGED <<fn, args>>

CallDetectDrumLoop ==
    /\ fn = "detect_drum_loop" /\ pc = "call"
    /\ ret' = DetectDrumLoop(args.drum_hits, args.tempo)
    /\ pc' = "return"
    /\ UNCHANGED <<fn, args>>

NextTempo ==
    \/ CallRefineBeatGrid
    \/ CallDetectTimeSignature
    \/ CallDetectDrumLoop

SpecTempo == InitTempo /\ [][NextTempo]_vars

TempoReturned ==
    /\ fn \in {"refine_beat_grid", "detect_time_signature", "detect_drum_loop"}
    /\ pc = "return"

\* C17: for tempo = 0 and any beat list or hit list, refine_beat_grid,
\* detect_time_signature and detect_drum_loop return a result; none of them
\* executes the division by the tempo.
C17_TempoZeroGuarded ==
    (TempoReturned /\ args.tempo = 0) => ret # ZeroDivisionError

(***************************************************************************)
(* drums.py, timing.py: onset and beat times.  The onset picker and the    *)
(* beat tracker choose frames of the onset-strength envelope; called with  *)
(* units='time' they hand back the times of those frames in seconds.       *)
(* Times are exact fractions of a second.                                  *)
(***************************************************************************)
\* librosa.frames_to_time, called at drums.py:40 and timing.py:33:
\* samples = (frames * hop_length).astype(int), time = samples / sr.
FramesToTime(frames, sr) ==
    Frac(FracFloor(FracMul(frames, Frac(HOP_LENGTH, 1))), sr)

\* librosa.time_to_frames, called at drums.py:43 and timing.py:39:
\* samples = (times * sr).astype(int), frame = samples // hop_length.
TimeToFrames(times, sr) ==
    FracFloor(FracMul(times, Frac(sr, 1))) \div HOP_LENGTH

\* What onset_detect and beat_track return with units='time' (drums.py:32-37,
\* timing.py:25-30): the times of the frames they picked.
PickedTimes(picked, sr) ==
    [k \in DOMAIN picked |-> FramesToTime(Frac(picked[k], 1), sr)]

\* detect_drum_onsets (lines 17-50).  onset_env is indexed from frame 0.
DetectDrumOnsets(onset_env, picked, sr) ==
    LET detected == PickedTimes(picked, sr)
        onset_times == [k \in DOMAIN detected |-> FramesToTime(detected[k], sr)]
        onset_frames == [k \in DOMAIN onset_times |-> TimeToFrames(onset_times[k], sr)]
        onset_strengths == IF Len(onset_frames) > 0
                           THEN [k \in DOMAIN onset_frames |->
                                     onset_env[onset_frames[k] + 1]]
                           ELSE <<>>
    IN  [onset_times |-> onset_times,
         onset_strengths |-> onset_strengths,
         onset_count |-> Len(onset_times)]

\* extract_drums_to_midi, lines 349-354: the onsets handed to the classifier.
RECURSIVE FilterByConfidence(_, _, _)
FilterByConfidence(onset_results, confidence_threshold, i) ==
    IF i > Len(onset_results.onset_strengths)
    THEN <<>>
    ELSE IF onset_results.onset_strengths[i] >= confidence_threshold
         THEN <<onset_results.onset_times[i]>> \o
              FilterByConfidence(onset_results, confidence_threshold, i + 1)
         ELSE FilterByConfidence(onset_results, confidence_threshold, i + 1)

\* Python's float % for a non-negative a and a positive m.
FracMod(a, m) ==
    FracSub(a, FracMul(Frac(FracFloor(FracDiv(a, m)), 1), m))

\* detect_downbeats (timing.py:58-94) on times in seconds.
RECURSIVE DownbeatLoopSeconds(_, _, _, _, _)
DownbeatLoopSeconds(beat_times, tempo, i, current_measure_start, downbeats) ==
    IF i > Len(beat_times)
    THEN downbeats
    ELSE LET beat_interval == Frac(60, tempo)
             measure_duration == FracMul(beat_interval, Frac(4, 1))
             beat_time == beat_times[i]
             time_since_measure ==
                 FracMod(FracSub(beat_time, current_measure_start), measure_duration)
             tolerance == FracMul(beat_interval, Frac(1, 10))
         IN  IF \/ FracLT(time_since_measure, tolerance)
                \/ FracLT(FracSub(measure_duration, time_since_measure), tolerance)
             THEN DownbeatLoopSeconds(beat_times, tempo, i + 1, beat_time,
                                      Append(downbeats, beat_time))
             ELSE DownbeatLoopSeconds(beat_times, tempo, i + 1,
                                      current_measure_start, downbeats)

DetectDownbeatsSeconds(beat_times, tempo) ==
    IF Len(beat_times) = 0
    THEN <<>>
    ELSE DownbeatLoopSeconds(beat_times, tempo, 1, beat_times[1], <<>>)

RECURSIVE MaxOf(_, _)
MaxOf(s, i) ==
    IF i = Len(s) THEN s[i]
    ELSE LET rest == MaxOf(s, i + 1) IN IF s[i] > rest THEN s[i] ELSE rest

\* analyze_tempo_and_beats (timing.py:13-55) from what beat_track picked;
\* n_samples is len(audio).  0 / 0 on numpy arrays is nan.
AnalyzeTempoAndBeatsFrom(onset_env, tempo, picked, sr, n_samples) ==
    LET tracked == PickedTimes(picked, sr)
        beat_times == [k \in DOMAIN tracked |-> FramesToTime(tracked[k], sr)]
        beat_frames == [k \in DOMAIN beat_times |-> TimeToFrames(beat_times[k], sr)]
        beat_strength == IF Len(beat_frames) > 0
                         THEN [k \in DOMAIN beat_frames |->
                                   onset_env[beat_frames[k] + 1]]
                         ELSE <<>>
        beat_confidence ==
            IF Len(beat_strength) > 0
            THEN [k \in DOMAIN beat_strength |->
                      IF MaxOf(beat_strength, 1) = 0
                      THEN NaN
                      ELSE Frac(beat_strength[k], MaxOf(beat_strength, 1))]
            ELSE <<>>
    IN  [bpm |-> tempo,
         beat_times |-> beat_times,
         beat_confidence |-> beat_confidence,
         downbeat_times |-> DetectDownbeatsSeconds(beat_times, tempo),
         total_beats |-> Len(beat_times),
         duration |-> Frac(n_samples, sr)]

(***************************************************************************)
(* Calls of detect_drum_onsets and analyze_tempo_and_beats on a clip of    *)
(* MaxEnvelopeFrames frames whose onset strengths are 0..MaxStrength; the  *)
(* picker and the tracker may pick any frames of the clip, in order.       *)
(***************************************************************************)
MaxEnvelopeFrames == 4
MaxStrength == 2

Envelopes(maxFrames, maxStrength) == [1..maxFrames -> 0..maxStrength]

PickedFrames(maxFrames) ==
    UNION {AscendingSeqs(n, 0, maxFrames - 1) : n \in 0..maxFrames}

InitOnsets ==
    /\ pc = "call"
    /\ ret = NoResult
    /\ \/ /\ fn = "detect_drum_onsets"
          /\ args \in [onset_env : Envelopes(MaxEnvelopeFrames, MaxStrength),
                       picked : PickedFrames(MaxEnvelopeFrames),
                       sr : {SAMPLE_RATE}]
       \/ /\ fn = "analyze_tempo_and_beats"
          /\ args \in [onset_env : Envelopes(MaxEnvelopeFrames, MaxStrength),
                       tempo : Tempos,
                       picked : PickedFrames(MaxEnvelopeFrames),
                       sr : {SAMPLE_RATE}]

CallDetectDrumOnsets ==
    /\ fn = "detect_drum_onsets" /\ pc = "call"
    /\ ret' = DetectDrumOnsets(args.onset_env, args.picked, args.sr)
    /\ pc' = "return"
    /\ UNCHANGED <<fn, args>>

CallAnalyzeTempoAndBeats ==
    /\ fn = "analyze_tempo_and_beats" /\ pc = "call"
    /\ ret' = AnalyzeTempoAndBeatsFrom(args.onset_env, args.tempo, args.picked, args.sr,
                                       Len(args.onset_env) * HOP_LENGTH)
    /\ pc' = "return"
    /\ UNCHANGED <<fn, args>>

NextOnsets ==
    \/ CallDetectDrumOnsets
    \/ CallAnalyzeTempoAndBeats

SpecOnsets == InitOnsets /\ [][NextOnsets]_vars

OnsetsReturned == fn = "detect_drum_onsets" /\ pc = "return"

BeatsReturned == fn = "analyze_tempo_and_beats" /\ pc = "return"

\* C21: the reported times are the detector's times in seconds, unconverted:
\* every onset time of detect_drum_onsets is the onset picker's time, its
\* strength is the envelope's value at the picked frame, so the onsets that
\* pass a threshold are the picked onsets whose own strength passes it; and
\* every beat time of analyze_tempo_and_beats is the beat tracker's time.
C21_TimesAreDetectorSeconds ==
    /\ OnsetsReturned =>
           /\ ret.onset_times = PickedTimes(args.picked, args.sr)
           /\ ret.onset_strengths =
                  [k \in DOMAIN args.picked |-> args.onset_env[args.picked[k] + 1]]
           /\ \A threshold \in 0..MaxStrength :
                  FilterByConfidence(ret, threshold, 1) =
                      SelectSeq(PickedTimes(args.picked, args.sr),
                                LAMBDA t : args.onset_env[TimeToFrames(t, args.sr) + 1]
                                               >= threshold)
    /\ BeatsReturned =>
           ret.beat_times = PickedTimes(args.picked, args.sr)

MaxRunFrames == 5
MaxRunTime == 6

\* Confidence 0.8 at even times and 0.4 at odd ones, both above the
\* threshold 0.3.
RunContours(maxFrames, maxTime) ==
    UNION {{[k \in 1..n |-> [time |-> times[k], frequency |-> freqs[k],
                             confidence |-> IF times[k] % 2 = 0 THEN 8 ELSE 4]] :
            times \in AscendingSeqs(n, 0, maxTime),
            freqs \in SeqsOf({276, 278}, n)} :
           n \in 0..maxFrames}

InitMelodyRuns ==
    /\ fn = "f0_to_midi_notes"
    /\ pc = "call"
    /\ args \in [f0 : RunContours(MaxRunFrames, MaxRunTime),
                 confidence_threshold : {3},
                 min_note_duration : MinNoteDurations,
                 max_note_duration : MaxNoteDurations]
    /\ ret = NoResult

SpecMelodyRuns == InitMelodyRuns /\ [][NextMelody]_vars

\* The duration test of lines 115 and 136.
WithinLimits(note) ==
    args.min_note_duration <= note.duration /\ note.duration <= args.max_note_duration

\* The candidates: what the call returns when no duration is out of limits.
AllCandidates ==
    F0ToMidiNotes(args.f0, args.confidence_threshold, 0,
                  IF args.f0 = <<>> THEN 0 ELSE args.f0[Len(args.f0)].time)

\* C23: dropping the candidates whose duration is outside the limits changes
\* no other candidate: the returned notes are the candidates within the
\* limits, each with the pitch, start, end, duration, confidence and
\* velocity it has when nothing is dropped, in the same order; and every
\* returned note is the candidate of one maximal run, so two runs of one
\* pitch with a dropped run of another pitch between them come back as two
\* notes.
C23_DroppedRunsLeaveNeighbours ==
    MelodyReturned =>
        /\ ret = SelectSeq(AllCandidates, WithinLimits)
        /\ LET frames == SurvivingFrames(args.f0, args.confidence_threshold)
           IN  \A k \in DOMAIN ret :
                   \E s \in PitchRunStarts(frames) : IsCandidateOf(ret[k], frames, s)

\* Pitch 69 from 0 to 2, one frame of pitch 70 at 3, pitch 69 again from 4
\* to 6, lower limit 2: the single frame is dropped and the two runs of 69
\* are returned as two notes.
C23_Witness ==
    /\ MelodyReturned
    /\ Len(args.f0) = 5
    /\ <<args.f0[1].time, args.f0[2].time, args.f0[3].time, args.f0[4].time,
         args.f0[5].time>> = <<0, 2, 3, 4, 6>>
    /\ <<args.f0[1].frequency, args.f0[2].frequency, args.f0[3].frequency,
         args.f0[4].frequency, args.f0[5].frequency>> = <<276, 276, 278, 276, 276>>
    /\ args.min_note_duration = 2
    /\ Len(AllCandidates) = 3
    /\ Len(ret) = 2
    /\ ret[1].pitch = 69 /\ ret[1].start_time = 0 /\ ret[1].end_time = 2
    /\ ret[2].pitch = 69 /\ ret[2].start_time = 4 /\ ret[2].end_time = 6

(***************************************************************************)
(* Calls of detect_downbeats, in ticks: any ascending beat list with any   *)
(* tempo, and beat lists spaced by exactly 60/tempo.                       *)
(***************************************************************************)
MaxPeriodicBeats == 9
MaxPeriodicStart == 3

PeriodicBeats(first, n, tempo) == [k \in 1..n |-> first + (k - 1) * BeatInterval(tempo)]

DownbeatInputs(maxBeats, maxDuration, maxPeriodic, maxStart) ==
    [beat_times : UNION {AscendingSeqs(n, 0, maxDuration) : n \in 0..maxBeats},
     tempo : TempoArguments]
        \cup UNION {[beat_times : {PeriodicBeats(first, n, tempo) :
                                      first \in 0..maxStart, n \in 1..maxPeriodic},
                     tempo : {tempo}] : tempo \in Tempos}

InitDownbeats ==
    /\ fn = "detect_downbeats"
    /\ pc = "call"
    /\ args \in DownbeatInputs(MaxBeats, MaxDuration, MaxPeriodicBeats, MaxPeriodicStart)
    /\ ret = NoResult

\* The call ends at a return statement, or at line 74 when the division
\* raises.
CallDetectDownbeats ==
    /\ fn = "detect_downbeats" /\ pc = "call"
    /\ ret' = DetectDownbeats(args.beat_times, args.tempo)
    /\ pc' = IF Len(args.beat_times) # 0 /\ args.tempo = 0 THEN "raise" ELSE "return"
    /\ UNCHANGED <<fn, args>>

NextDownbeats == CallDetectDownbeats

SpecDownbeats == InitDownbeats /\ [][NextDownbeats]_vars

DownbeatsReturned == fn = "detect_downbeats" /\ pc = "return"

DownbeatsEnded == fn = "detect_downbeats" /\ pc # "call"

\* sub is seq with some elements left out.
RECURSIVE IsSubsequence(_, _)
IsSubsequence(sub, seq) ==
    IF sub = <<>> THEN TRUE
    ELSE IF seq = <<>> THEN FALSE
    ELSE IF Head(sub) = Head(seq)
         THEN IsSubsequence(Tail(sub), Tail(seq))
         ELSE IsSubsequence(sub, Tail(seq))

IsPeriodic(beat_times, tempo) ==
    \A k \in 1..(Len(beat_times) - 1) :
        (beat_times[k + 1] - beat_times[k]) * tempo = 60 * TicksPerSecond

\* A list of downbeats as the claim describes it.
DownbeatsAsClaimed(downbeats) ==
    /\ IsSubsequence(downbeats, args.beat_times)
    /\ args.beat_times # <<>> =>
           (downbeats # <<>> /\ downbeats[1] = args.beat_times[1])
    /\ (args.tempo > 0 /\ IsPeriodic(args.beat_times, args.tempo)) =>
           downbeats = [j \in 1..((Len(args.beat_times) + 3) \div 4) |->
                            args.beat_times[4 * (j - 1) + 1]]

\* C24: detect_downbeats returns a list of downbeats that is a subsequence
\* of beat_times, in order, and always contains the first beat; of a beat
\* list spaced by exactly 60/tempo, tempo > 0, the downbeats are the beats at
\* the indices 0, 4, 8, ... (1, 5, 9, ... here).
C24_DownbeatsEveryFourthBeat ==
    DownbeatsEnded => (pc = "return" /\ DownbeatsAsClaimed(ret))

\* C24, where it holds: the same whenever the call does not divide by a
\* zero tempo.
C24_DownbeatsEveryFourthBeatUnlessRaised ==
    DownbeatsReturned => DownbeatsAsClaimed(ret)

\* Nine beats spaced by 60/tempo from 0.05 s on: the downbeats are the
\* first, the fifth and the ninth.
C24_Witness ==
    /\ DownbeatsReturned
    /\ Len(args.beat_times) = 9
    /\ args.beat_times[1] = 2
    /\ IsPeriodic(args.beat_times, args.tempo)
    /\ ret = <<args.beat_times[1], args.beat_times[5], args.beat_times[9]>>

(***************************************************************************)
(* detect_time_signature, stated without the loops: the measures are the   *)
(* stretches of beats between gaps longer than 1.5 beat intervals.         *)
(***************************************************************************)
SignatureReturned == fn = "detect_time_signature" /\ pc = "return"

\* The beats (1-based) that follow a gap of more than 1.5 x 60/tempo.
BeatsAfterLongGap ==
    {k \in 2..Len(args.beat_times) :
        2 * (args.beat_times[k] - args.beat_times[k - 1]) * args.tempo
            > 3 * 60 * TicksPerSecond}

MeasureStarts == {1} \cup BeatsAfterLongGap

\* The number of beats from the measure start s up to the next one.
BeatsInMeasure(s) ==
    LET later == {t \in MeasureStarts : t > s}
        next == IF later = {} THEN Len(args.beat_times) + 1
                ELSE CHOOSE t \in later : \A u \in later : t <= u
    IN  next - s

MeasuresOfLength(n) == {s \in MeasureStarts : BeatsInMeasure(s) = n}

RECURSIVE BeatsInMeasures(_)
BeatsInMeasures(starts) ==
    IF starts = {} THEN 0
    ELSE LET s == CHOOSE s \in starts : TRUE
         IN  BeatsInMeasure(s) + BeatsInMeasures(starts \ {s})

\* A time signature as the claim describes it, for a tempo other than 0.
SignatureAsClaimed(signature) ==
    /\ signature.denominator = 4
    /\ Len(args.beat_times) < 8 =>
           signature.numerator = 4 /\ signature.confidence = Frac(1, 2)
    /\ (Len(args.beat_times) >= 8 /\ BeatsAfterLongGap = {}) =>
           signature.numerator = 4 /\ signature.confidence = Frac(3, 10)
    /\ (Len(args.beat_times) >= 8 /\ BeatsAfterLongGap # {}) =>
           /\ BeatsInMeasures(MeasureStarts) = Len(args.beat_times)
           /\ MeasuresOfLength(signature.numerator) # {}
           /\ \A s \in MeasureStarts :
                  Cardinality(MeasuresOfLength(BeatsInMeasure(s)))
                      <= Cardinality(MeasuresOfLength(signature.numerator))
           /\ signature.confidence =
                  Frac(Cardinality(MeasuresOfLength(signature.numerator)),
                       Cardinality(MeasureStarts))
           /\ FracLT(Zero, signature.confidence)
           /\ FracLE(signature.confidence, One)

\* C25: detect_time_signature returns, always, a time signature of
\* denominator 4: 4/4 with confidence 0.5 for fewer than 8 beats, 4/4 with
\* confidence 0.3 when no gap between beats exceeds 1.5 x 60/tempo, and
\* otherwise a most frequent number of beats per measure, with confidence =
\* (measures of that length) / (measures), in (0, 1].
C25_TimeSignatureByMeasures ==
    SignatureReturned => (ret # ZeroDivisionError /\ SignatureAsClaimed(ret))

\* C25, where it holds: the same whenever the call does not divide by a
\* zero tempo.
C25_TimeSignatureByMeasuresUnlessRaised ==
    (SignatureReturned /\ ret # ZeroDivisionError) => SignatureAsClaimed(ret)

\* Nine beats at 200 BPM in measures of 3, 3, 2 and 1 beats: 3/4 with
\* confidence 1/2.
C25_Witness ==
    /\ SignatureReturned
    /\ args.tempo = 200
    /\ Len(args.beat_times) = 9
    /\ MeasureStarts = {1, 4, 7, 9}
    /\ ret = [numerator |-> 3, denominator |-> 4, confidence |-> Frac(1, 2)]

\* Eight beats at 240 BPM in four measures of two beats: 2/4 with
\* confidence 1.
C25_WitnessTie ==
    /\ SignatureReturned
    /\ args.tempo = 240
    /\ Len(args.beat_times) = 8
    /\ MeasureStarts = {1, 3, 5, 7}
    /\ ret.numerator = 2 /\ ret.confidence = One

(***************************************************************************)
(* detect_drum_loop, stated without the Counter.                           *)
(***************************************************************************)
LoopReturned == fn = "detect_drum_loop" /\ pc = "return"

\* The two-decimal beat phase of hit k, in hundredths.
HitPhase(k) == RoundedBeatPosition(args.drum_hits[k].time, BeatInterval(args.tempo))

HitPhases == {HitPhase(k) : k \in DOMAIN args.drum_hits}

HitsAtPhase(phase) == Cardinality({k \in DOMAIN args.drum_hits : HitPhase(k) = phase})

RECURSIVE HitsAtPhases(_)
HitsAtPhases(phases) ==
    IF phases = {} THEN 0
    ELSE LET phase == CHOOSE phase \in phases : TRUE
         IN  HitsAtPhase(phase) + HitsAtPhases(phases \ {phase})

\* C26: detect_drum_loop with fewer than 4 hits returns loop_length 0,
\* loop_confidence 0 and repetitions 0; with at least 4 hits and tempo > 0
\* it returns loop_length = min(4, number of distinct two-decimal phases)
\* and loop_confidence = (hits at the loop_length most frequent phases) /
\* (hits), which is in (0, 1]; and before rounding every phase
\* (hit_time % beat_interval) / beat_interval is in [0, 1).
C26_LoopFromFrequentPhases ==
    LoopReturned =>
        /\ Len(args.drum_hits) < 4 =>
               ret = [loop_length |-> 0, loop_confidence |-> Zero, repetitions |-> 0]
        /\ (Len(args.drum_hits) >= 4 /\ args.tempo > 0) =>
               LET frequent == {ret.common_positions[k] : k \in DOMAIN ret.common_positions}
                   beat_interval == Frac(60 * TicksPerSecond, args.tempo)
               IN  /\ ret.loop_length =
                          IF Cardinality(HitPhases) < 4 THEN Cardinality(HitPhases) ELSE 4
                   /\ frequent \subseteq HitPhases
                   /\ Cardinality(frequent) = ret.loop_length
                   /\ \A inside \in frequent : \A outside \in HitPhases \ frequent :
                          HitsAtPhase(outside) <= HitsAtPhase(inside)
                   /\ ret.loop_confidence =
                          Frac(HitsAtPhases(frequent), Len(args.drum_hits))
                   /\ FracLT(Zero, ret.loop_confidence)
                   /\ FracLE(ret.loop_confidence, One)
                   /\ \A k \in DOMAIN args.drum_hits :
                          LET phase == FracDiv(FracMod(Frac(args.drum_hits[k].time, 1),
                                                       beat_interval),
                                               beat_interval)
                          IN  FracLE(Zero, phase) /\ FracLT(phase, One)

\* Five hits at five phases of a beat of 0.3 s: the loop has the four phases
\* met first, with four of the five hits.
C26_Witness ==
    /\ LoopReturned
    /\ args.tempo = 200
    /\ Len(args.drum_hits) = 5
    /\ Cardinality(HitPhases) = 5
    /\ ret.loop_length = 4
    /\ ret.loop_confidence = Frac(4, 5)

\* Five hits, two of them at the phase met last: that phase comes first in
\* the loop.
C26_WitnessFrequent ==
    /\ LoopReturned
    /\ args.tempo = 240
    /\ Len(args.drum_hits) = 5
    /\ HitPhase(4) = HitPhase(5)
    /\ Cardinality(HitPhases) = 4
    /\ ret.common_positions[1] = HitPhase(5)
    /\ ret.loop_confidence = One

(***************************************************************************)
(* melody.py, extract_melody_to_midi (lines 240-315): the notes it         *)
(* returns.  The F0 contour stands for what extract_melody_f0 returns;     *)
(* frame times are in ticks, notes and beats in exact fractions of a       *)
(* second.                                                                 *)
(***************************************************************************)
\* config.py line 14: 0.5, in tenths as the contour's confidences.
MELODY_CONF_THRESH == 5

\* config.py line 16: 2.0 seconds.
MELODY_MAX_NOTE_DURATION == Frac(2, 1)

\* A duration in seconds as a whole number of ticks.
SecondsToTicks(x) == FracFloor(FracMul(x, Frac(TicksPerSecond, 1)))

\* Lines 116-124: float() of the times of a note, in seconds.
NoteInSeconds(note) ==
    [note EXCEPT !.start_time = Frac(note.start_time, TicksPerSecond),
                 !.end_time = Frac(note.end_time, TicksPerSecond),
                 !.duration = Frac(note.duration, TicksPerSecond)]

\* melody.py line 153: the default quantization_strength.
DefaultQuantizationStrength == Frac(1, 2)

\* Lines 268-278: f0_to_midi_notes with the limits of config.py, then
\* quantize_notes_to_beats with its default strength when quantize is set
\* and there are beats.
ExtractMelodyNotes(f0, beat_times, quantize, confidence_threshold) ==
    LET found == F0ToMidiNotes(f0, confidence_threshold,
                               SecondsToTicks(MELODY_MIN_NOTE_DURATION),
                               SecondsToTicks(MELODY_MAX_NOTE_DURATION))
        notes == [k \in DOMAIN found |-> NoteInSeconds(found[k])]
    IN  IF quantize /\ beat_times # <<>>
        THEN QuantizeNotesToBeats(notes, beat_times, DefaultQuantizationStrength)
        ELSE notes

(***************************************************************************)
(* Calls of extract_melody_to_midi: contours of up to MaxPipelineFrames    *)
(* confident frames of two pitches (69 and 70), half a second apart or     *)
(* more, and up to MaxPipelineBeats beats on the same grid of half         *)
(* seconds, up to MaxPipelineTime half seconds.                            *)
(***************************************************************************)
MaxPipelineFrames == 3
MaxPipelineBeats == 2
MaxPipelineTime == 6

HalfSecond == TicksPerSecond \div 2

PipelineContours(maxFrames, maxTime) ==
    UNION {{[k \in 1..n |-> [time |-> HalfSecond * times[k], frequency |-> freqs[k],
                             confidence |-> 8]] :
            times \in AscendingSeqs(n, 0, maxTime),
            freqs \in SeqsOf({276, 278}, n)} :
           n \in 0..maxFrames}

PipelineBeats(maxBeats, maxTime) ==
    UNION {{[k \in 1..n |-> Frac(times[k], 2)] : times \in AscendingSeqs(n, 0, maxTime)} :
           n \in 0..maxBeats}

InitPipeline ==
    /\ fn = "extract_melody_to_midi"
    /\ pc = "call"
    /\ args \in [f0 : PipelineContours(MaxPipelineFrames, MaxPipelineTime),
                 beat_times : PipelineBeats(MaxPipelineBeats, MaxPipelineTime),
                 quantize : BOOLEAN,
                 confidence_threshold : {MELODY_CONF_THRESH}]
    /\ ret = NoResult

CallExtractMelodyToMidi ==
    /\ fn = "extract_melody_to_midi" /\ pc = "call"
    /\ ret' = ExtractMelodyNotes(args.f0, args.beat_times, args.quantize,
                                 args.confidence_threshold)
    /\ pc' = "return"
    /\ UNCHANGED <<fn, args>>

NextPipeline == CallExtractMelodyToMidi

SpecPipeline == InitPipeline /\ [][NextPipeline]_vars

PipelineReturned == fn = "extract_melody_to_midi" /\ pc = "return"

\* C27: every note the melody pipeline returns with quantization enabled
\* has a duration of at most MELODY_MAX_NOTE_DURATION.
C27_QuantizedWithinMaximum ==
    (PipelineReturned /\ args.quantize) =>
        \A k \in DOMAIN ret : FracLE(ret[k].duration, MELODY_MAX_NOTE_DURATION)

\* Without quantization the upper limit of f0_to_midi_notes is what the
\* pipeline returns.
C27_UnquantizedWithinMaximum ==
    (PipelineReturned /\ ~args.quantize) =>
        \A k \in DOMAIN ret : FracLE(ret[k].duration, MELODY_MAX_NOTE_DURATION)

\* A note of 2.0 s, from 0.5 s to 2.5 s, with beats at 0 s and 3 s: its start
\* is pulled halfway to the first beat and its end halfway to the second,
\* and it comes back 2.5 s long.
C27_Stretched ==
    /\ PipelineReturned /\ args.quantize
    /\ args.beat_times = <<Frac(0, 1), Frac(3, 1)>>
    /\ Len(ret) = 1
    /\ ret[1].start_time = Frac(1, 4)
    /\ ret[1].end_time = Frac(11, 4)
    /\ ret[1].duration = Frac(5, 2)

\* No note of the list starts before the one before it ends, and none
\* starts before the one before it starts.
IsMonophonic(notes) ==
    \A k \in 1..(Len(notes) - 1) :
        /\ FracLE(notes[k].start_time, notes[k + 1].start_time)
        /\ FracLE(notes[k].end_time, notes[k + 1].start_time)

\* Line 188, note.copy(): what quantization leaves of each note.
SameNotesInOrder(before, after) ==
    /\ Len(after) = Len(before)
    /\ \A k \in DOMAIN before :
           /\ after[k].pitch = before[k].pitch
           /\ after[k].confidence = before[k].confidence
           /\ after[k].velocity = before[k].velocity

\* C28: quantize_notes_to_beats keeps a monophonic list monophonic: the same
\* notes in the same order (count, pitches, confidences, velocities), none
\* overlapping the next.
C28_MonophonyPreserved ==
    (QuantizeReturned /\ IsMonophonic(args.notes)) =>
        (SameNotesInOrder(args.notes, ret) /\ IsMonophonic(ret))

\* What does hold: the same notes come back in the same order.
C28_SameNotesInOrder ==
    QuantizeReturned => SameNotesInOrder(args.notes, ret)

\* Two notes, 0.05-0.1 s and 0.1-0.15 s, snapped at full strength to the
\* only beat at 0 s: both come back as 0-0.1 s, one on top of the other.
C28_Overlap ==
    /\ QuantizeReturned /\ args.quantization_strength = One
    /\ args.beat_times = <<QuantTime(0)>>
    /\ Len(args.notes) = 2 /\ IsMonophonic(args.notes)
    /\ args.notes[1].start_time = QuantTime(1) /\ args.notes[1].end_time = QuantTime(2)
    /\ args.notes[2].start_time = QuantTime(2) /\ args.notes[2].end_time = QuantTime(3)
    /\ ret[1].start_time = Zero /\ ret[1].end_time = MELODY_MIN_NOTE_DURATION
    /\ ret[2].start_time = Zero /\ ret[2].end_time = MELODY_MIN_NOTE_DURATION

(***************************************************************************)
(* analyze_track.py, analyze_large_track (lines 15-167).  The functions it *)
(* calls are taken by their outcome: each returns (with the count it       *)
(* reports) or raises.  `ret` holds the locals of the run: the config      *)
(* dictionary, the files written, the lines printed and the configuration  *)
(* saved.                                                                  *)
(***************************************************************************)
MaxReported == 2

\* One printed line: the message, the count in it and the exception in it.
Printed(message, count, error) == [message |-> message, count |-> count, error |-> error]

\* Lines 49-59, 64 and 86-89: the config dictionary before step 3.
ConfigAfterStems ==
    [status |-> "analyzing", analysis |-> [chords |-> 0], stems |-> "demucs:4stems"]

\* Lines 21-90: the file test, the imports, the project, the beat grid and
\* the stems.  Whatever raises here ends the run in the handler of lines
\* 164-167.
LoadAndSeparate ==
    /\ fn = "analyze_large_track" /\ pc = "call"
    /\ IF ~args.exists
       THEN /\ pc' = "return"
            /\ ret' = [config |-> NoResult, files |-> {}, saved |-> NoResult,
                       printed |-> <<Printed("File not found", 0, "none")>>]
       ELSE \E raised \in BOOLEAN :
                IF raised
                THEN /\ pc' = "return"
                     /\ ret' = [config |-> NoResult, files |-> {}, saved |-> NoResult,
                                printed |-> <<Printed("Error during analysis", 0, "Exception")>>]
                ELSE /\ pc' = "melody"
                     /\ ret' = [config |-> ConfigAfterStems, files |-> {"stems"},
                                saved |-> NoResult, printed |-> <<>>]
    /\ UNCHANGED <<fn, args>>

\* Lines 92-109, step 3: extract_melody_to_midi returns or raises (melody.py
\* lines 34-35 raise ImportError when CREPE is missing); config["midi"] is
\* created at line 105, after the call.
MelodyExtraction ==
    /\ fn = "analyze_large_track" /\ pc = "melody"
    /\ \E raised \in BOOLEAN, total_notes \in 0..MaxReported :
           /\ raised => total_notes = 0
           /\ ret' = IF raised
                     THEN [ret EXCEPT !.printed = Append(@, Printed("Melody extraction failed",
                                                                    0, "ImportError"))]
                     ELSE [ret EXCEPT !.files = @ \cup {"melody.mid"},
                                      !.config = @ @@ [midi |-> [melody |-> "melody.mid"]],
                                      !.printed = Append(@, Printed("Extracted melody",
                                                                    total_notes, "none"))]
    /\ pc' = "drums"
    /\ UNCHANGED <<fn, args>>

\* Line 119: config["midi"]["drums_basic"] = str(drum_path), a KeyError when
\* config has no "midi".
RecordDrumPath(config) ==
    IF "midi" \in DOMAIN config
    THEN [k \in DOMAIN config |->
              IF k = "midi" THEN config[k] @@ [drums_basic |-> "drums_basic.mid"]
              ELSE config[k]]
    ELSE [raised |-> "KeyError"]

\* Lines 111-125, step 4: extract_drums_to_midi returns (the file is
\* written) or raises; then line 119; any exception of the two is printed
\* as a failed drum extraction.
DrumAnalysis ==
    /\ fn = "analyze_large_track" /\ pc = "drums"
    /\ \E raised \in BOOLEAN, total_hits \in 0..MaxReported :
           /\ raised => total_hits = 0
           /\ ret' = IF raised
                     THEN [ret EXCEPT !.printed = Append(@, Printed("Drum extraction failed",
                                                                    0, "Exception"))]
                     ELSE IF "midi" \in DOMAIN ret.config
                          THEN [ret EXCEPT !.files = @ \cup {"drums_basic.mid"},
                                           !.config = RecordDrumPath(@),
                                           !.printed = Append(@, Printed("Extracted drums",
                                                                         total_hits, "none"))]
                          ELSE [ret EXCEPT !.files = @ \cup {"drums_basic.mid"},
                                           !.printed = Append(@, Printed("Drum extraction failed",
                                                                         0, RecordDrumPath(ret.config).raised))]
    /\ pc' = "chords"
    /\ UNCHANGED <<fn, args>>

\* Lines 127-135, step 5: analyze_chord_progression returns or raises.
ChordAnalysis ==
    /\ fn = "analyze_large_track" /\ pc = "chords"
    /\ \E raised \in BOOLEAN, total_chords \in 0..MaxReported :
           /\ raised => total_chords = 0
           /\ ret' = IF raised
                     THEN [ret EXCEPT !.printed = Append(@, Printed("Chord analysis failed",
                                                                    0, "Exception"))]
                     ELSE [ret EXCEPT !.config.analysis.chords = total_chords,
                                      !.printed = Append(@, Printed("Chord analysis",
                                                                    total_chords, "none"))]
    /\ pc' = "save"
    /\ UNCHANGED <<fn, args>>

\* Lines 137-139: project.save_project_config(config), which writes the
\* dictionary as it is (io_utils.py lines 43-49).
SaveProjectConfig ==
    /\ fn = "analyze_large_track" /\ pc = "save"
    /\ ret' = [ret EXCEPT !.saved = ret.config,
                          !.printed = Append(@, Printed("Project saved", 0, "none"))]
    /\ pc' = "return"
    /\ UNCHANGED <<fn, args>>

InitTrack ==
    /\ fn = "analyze_large_track"
    /\ pc = "call"
    /\ args \in [exists : BOOLEAN]
    /\ ret = NoResult

NextTrack ==
    \/ LoadAndSeparate
    \/ MelodyExtraction
    \/ DrumAnalysis
    \/ ChordAnalysis
    \/ SaveProjectConfig

SpecTrack == InitTrack /\ [][NextTrack]_vars

\* The run got as far as saving the configuration.
TrackSaved == fn = "analyze_large_track" /\ pc = "return" /\ ret.saved # NoResult

HasPrinted(message) == \E k \in DOMAIN ret.printed : ret.printed[k].message = message

\* extract_drums_to_midi itself returned: it wrote its file.
DrumExtractionSucceeded == "drums_basic.mid" \in ret.files

\* C29: when melody extraction fails and drum extraction itself succeeds,
\* the saved configuration has the drum MIDI path under
\* config["midi"]["drums_basic"] and no failed drum step is printed.
C29_DrumsRecordedWithoutMelody ==
    (TrackSaved /\ HasPrinted("Melody extraction failed") /\ DrumExtractionSucceeded) =>
        /\ "midi" \in DOMAIN ret.saved
        /\ "drums_basic" \in DOMAIN ret.saved["midi"]
        /\ ~HasPrinted("Drum extraction failed")

\* With melody extracted, a successful drum extraction is recorded.
C29_DrumsRecordedWithMelody ==
    (TrackSaved /\ HasPrinted("Extracted melody") /\ DrumExtractionSucceeded) =>
        /\ "midi" \in DOMAIN ret.saved
        /\ "drums_basic" \in DOMAIN ret.saved["midi"]
        /\ ~HasPrinted("Drum extraction failed")

\* Melody extraction raised, drums_basic.mid was written, and the saved
\* configuration has no "midi" at all while the drum step is printed as
\* failed with a KeyError.
C29_DrumsLost ==
    /\ TrackSaved /\ HasPrinted("Melody extraction failed") /\ DrumExtractionSucceeded
    /\ "midi" \notin DOMAIN ret.saved
    /\ \E k \in DOMAIN ret.printed :
           ret.printed[k] = Printed("Drum extraction failed", 0, "KeyError")

\* Lines 127-129: the three ratios of a window with non-zero band energy.
BandRatios(fft, sr) ==
    LET energy == BandEnergies(fft, sr)
        total == TotalBandEnergy(fft, sr)
    IN  [kick |-> EnergyRatio(energy.kick, total),
         snare |-> EnergyRatio(energy.snare, total),
         hat |-> EnergyRatio(energy.hat, total)]

\* Lines 132-136: the threshold each type is tested against.
ThresholdOf(drum_type) ==
    IF drum_type = "kick" THEN DRUM_THRESH.kick_lowband
    ELSE IF drum_type = "snare" THEN DRUM_THRESH.snare_mid
    ELSE DRUM_THRESH.hat_high

TestedTypes == {"kick", "snare", "hat"}

\* The six orders in which the three types can be tested.
CheckOrders == {order \in [1..3 -> TestedTypes] : {order[k] : k \in 1..3} = TestedTypes}

\* The chain of lines 132-139 with its three tests in the given order.
ClassifyInOrder(order, ratios) ==
    IF Exceeds(ratios[order[1]], ThresholdOf(order[1])) THEN order[1]
    ELSE IF Exceeds(ratios[order[2]], ThresholdOf(order[2])) THEN order[2]
    ELSE IF Exceeds(ratios[order[3]], ThresholdOf(order[3])) THEN order[3]
    ELSE "unknown"

\* The types whose ratio exceeds its threshold.
TypesAboveThreshold(ratios) ==
    {drum_type \in TestedTypes : Exceeds(ratios[drum_type], ThresholdOf(drum_type))}

\* C30: with the configured thresholds at most one of the three band ratios
\* exceeds its threshold (they are non-negative and sum to 1), so
\* classify_drum_segment returns what the chain returns with its tests in
\* any order.
C30_CheckOrderIrrelevant ==
    (ClassifyReturned /\ TotalBandEnergy(args.fft, args.sr) # 0) =>
        LET ratios == BandRatios(args.fft, args.sr)
        IN  /\ \A drum_type \in TestedTypes : FracLE(Zero, ratios[drum_type])
            /\ FracAdd(ratios.kick, FracAdd(ratios.snare, ratios.hat)) = One
            /\ Cardinality(TypesAboveThreshold(ratios)) <= 1
            /\ \A order \in CheckOrders :
                   ClassifyInOrder(order, ratios) = ret.drum_type

\* A window with energy in all three bands, most of it in the last one the
\* code tests: a hat, although the kick and the snare are tested first.
C30_Witness ==
    /\ ClassifyReturned
    /\ BandEnergies(args.fft, args.sr).kick > 0
    /\ BandEnergies(args.fft, args.sr).snare > 0
    /\ TypesAboveThreshold(BandRatios(args.fft, args.sr)) = {"hat"}
    /\ ret.drum_type = "hat"

\* A window with half of its energy in the kick band and half in the snare
\* band: neither exceeds its threshold.
C30_WitnessShared ==
    /\ ClassifyReturned
    /\ BandRatios(args.fft, args.sr).kick = Frac(1, 2)
    /\ BandRatios(args.fft, args.sr).snare = Frac(1, 2)
    /\ ret.drum_type = "unknown"

(***************************************************************************)
(* Any one call of the analysis core.                                      *)
(***************************************************************************)
Init ==
    \/ InitChords
    \/ InitDetect
    \/ InitKey
    \/ InitBeatGrid
    \/ InitMelody
    \/ InitQuantize
    \/ InitClassify
    \/ InitDrumMidi
    \/ InitTempo
    \/ InitOnsets
    \/ InitMelodyRuns
    \/ InitDownbeats
    \/ InitPipeline
    \/ InitTrack

Next ==
    \/ NextChords
    \/ NextDetect
    \/ NextKey
    \/ NextBeatGrid
    \/ NextMelody
    \/ NextQuantize
    \/ NextClassify
    \/ NextDrumMidi
    \/ NextTempo
    \/ NextOnsets
    \/ NextDownbeats
    \/ NextPipeline
    \/ NextTrack

Spec == Init /\ [][Next]_vars

=============================================================================
